---------------------------- MODULE Spec2Model ----------------------------
(***************************************************************************)
(* A model of combine: the sqlite-backed training queue (train.py), the    *)
(* periodic reporting task (handler.py) and the IRC client's write path    *)
(* (irc.py).                                                               *)
(*                                                                         *)
(* The queue is one sqlite table shared by several connections: the        *)
(* uploader (enqueue_job), the training worker (run_train_queue) and the   *)
(* bot's periodic task (report_training_status, on a copy() of the queue). *)
(* Every connection is a Python sqlite3 connection in its default mode:    *)
(* a SELECT runs outside any transaction, the first INSERT/UPDATE opens a  *)
(* deferred transaction that takes sqlite's RESERVED lock, and commit()    *)
(* needs the EXCLUSIVE lock, which no other connection's active SELECT     *)
(* (SHARED lock) allows. A connection that waits for a lock retries (the   *)
(* busy handler); the 5 s busy timeout is not modelled, a waiting step is  *)
(* simply not enabled. The one immediate failure sqlite produces is        *)
(* modelled: a connection whose own SELECT is still active and that asks   *)
(* for RESERVED while another connection holds it gets SQLITE_BUSY at once *)
(* (sqlite3.OperationalError: database is locked).                         *)
(***************************************************************************)
EXTENDS Integers, Sequences, FiniteSets, TLC

VARIABLES
    queue,      \* the committed rows of table queue; rowid = index
    now,        \* the wall clock of datetime('now'), in seconds
    dbwriter,   \* the connection holding sqlite's RESERVED lock, or NoConn
    txn,        \* the table as the open write transaction sees it
    upc,        \* the uploader's position in enqueue_job
    wpc,        \* each worker's position in run_train_queue
    wjob,       \* each worker's (rowid, user, agestr) from get_job
    wfailed,    \* each worker's local variable failed
    wout,       \* how each worker's last training subprocess ended
    ppc,        \* each periodic task's position in report_training_status
    pcur,       \* each poller's SELECT cursor: the rows next() has not returned
    prow,       \* each poller's loop variable rowid
    pout,       \* each poller's list out, then the list the task iterates over
    startlog,   \* history: (rowid, worker) of every committed update_status(rowid, running)
    returned,   \* history: the rowids returned by get_completed_jobs, in order
    sent,       \* history: the completion messages written to the connection
    crashes,    \* history: how many times a worker process was killed
    client_running, \* irc.Client._running
    write_lock,     \* irc.Client._write_lock: the thread holding it, or Free
    wire,           \* the chunks written to the socket after the handshake
    nrecv,          \* how many inbound lines the receive loop has read
    listen_pc,      \* the receive thread's position in _listen / _pong
    task_pc,        \* each handler or timer thread's position
    task_left,      \* how many messages each thread has still to send
    sock_open,      \* irc.Client._socket has not been closed
    listen_exc,     \* the exception that ended the receive thread, or "none"
    close_exc,      \* what the last Client.close() call raised, or "none"
    joined,         \* a Client.join() call has returned
    s_pc,           \* Client.send(user, message) by one caller: its position
    s_text,         \* ... its message, a sequence of characters
    s_exc,          \* ... the exception it raised, or "none"
    s_wrote,        \* ... the bytes it handed to the socket
    s_was_running,  \* ... the value of _running when it was called
    s_calls,        \* the number of calls made so far
    d_pc,           \* Handler.__call__(client, user, channel, msg): its position
    d_channel,      \* ... the channel the message came on
    d_msg,          \* ... the message, a sequence of characters
    d_cmd,          \* ... the function found in _commands, or "none"
    d_data,         \* ... the argument text handed to it
    d_invoked,      \* ... the command functions called, with their argument
    d_failure,      \* ... the CommandFailure the function raised, if any
    d_replies,      \* ... the messages Client.send wrote for it
    d_exc,          \* ... the exception that left __call__, or "none"
    d_calls,        \* the number of messages dispatched so far
    pool,           \* _gen_candidates: its list candidates
    gen_finished,   \* _gen_candidates: an exception has ended the generator
    supply_lock,    \* LockedIterator._lock: the caller holding it, or Free
    n_pc,           \* each caller of next(self._candidates): its position
    n_got,          \* ... what its last call returned or raised
    yielded,        \* every candidate a call has returned, in order
    fetched,        \* the raw candidates of the last refill
    refills,        \* the number of refills so far
    n_calls,        \* the number of calls of next() so far
    k_pc,           \* one call of CombineHandler._predict: its position
    k_with,         \* ... its argument with_mods
    k_without,      \* ... its argument without_mods
    k_model,        \* ... what model.predict gives for each mask
    k_result,       \* ... the list it returned
    r_pc,           \* one execution of CombineHandler.recommend: its position
    r_has_model,    \* ... whether a model of the user is on disk
    r_stats,        \* self._user_stats: the user's cached window, or NoStats
    r_window,       \* ... its lower_bound and upper_bound
    r_with,         \* ... its with_mods
    r_without,      \* ... its without_mods
    r_n,            \* ... the n of enumerate(self._candidates)
    r_taken,        \* ... how many candidates it took out of the supply
    r_predicted,    \* ... how many candidates it ran _predict on
    r_preds,        \* ... the predictions of the candidate at hand
    r_raised,       \* ... the model raised on some candidate so far
    r_missed,       \* ... it went past a prediction inside the window
    r_reply,        \* ... the candidate, mask and prediction it replied with
    x_entries,      \* ExpiringCache._entries: for each key its _Entry, if any
    x_now,          \* datetime.datetime.now() as the cache reads it
    x_got,          \* what the last __getitem__ returned or raised, and when
    x_last,         \* for each key the value and expiry of the last __setitem__
    m_cache,        \* lru_cache of _get_model: its entries, least recently used first
    m_stored,       \* the users with a model under model_cache_dir
    m_pc,           \* each caller of get_model: its position
    m_user,         \* ... the user it asks for
    m_res,          \* ... what its last call returned or raised
    m_loads,        \* the number of models read from storage so far
    m_calls,        \* the number of calls of get_model so far
    m_clock,        \* the number of accesses to the cache so far: hits and additions
    m_time,         \* for each user the number of its last access
    m_evicted,      \* the users evicted so far, in order
    t_now,          \* pd.Timestamp.now(tz='utc') as the tokens' code reads it
    t_token,        \* the token presented to the upload server
    t_issue,        \* the user and expiry gen_token issued it for, if it did
    t_result,       \* what the last read_token returned or raised, and when
    b_pc,           \* _listen seen byte by byte: its position
    b_buffer,       \* ... its local buffer
    b_lines,        \* ... the lines of the for loop not handled yet
    b_handled,      \* ... the lines the for loop has taken up, in order
    b_stream,       \* every byte recv has returned so far
    b_cuts,         \* the lengths of the stream at which a recv ended
    i_clock,        \* the time, as one periodic task's timers see it
    i_timers,       \* the threading.Timer objects waiting: the time each is due
    i_running,      \* the number of executions of wrapped_function under way
    i_started,      \* when the execution under way, or the last one, started
    i_returned      \* when the last execution ended, -1 before the first

qvars == <<queue, now, dbwriter, txn, upc, wpc, wjob, wfailed, wout,
           ppc, pcur, prow, pout, startlog, returned, sent, crashes>>

\* the client's life cycle: its socket, the end of its receive thread
lvars == <<sock_open, listen_exc, close_exc, joined>>

cvars == <<client_running, write_lock, wire, nrecv, listen_pc, task_pc, task_left, lvars>>

\* one caller of Client.send
svars == <<s_pc, s_text, s_exc, s_wrote, s_was_running, s_calls>>

\* one call of the message handler
dvars == <<d_pc, d_channel, d_msg, d_cmd, d_data, d_invoked, d_failure, d_replies,
           d_exc, d_calls>>

\* the candidate supply: the generator, its lock and its callers
uvars == <<pool, gen_finished, supply_lock, n_pc, n_got, yielded, fetched, refills, n_calls>>

\* one call of _predict
kvars == <<k_pc, k_with, k_without, k_model, k_result>>

\* one execution of the recommend command
rvars == <<r_pc, r_has_model, r_stats, r_window, r_with, r_without, r_n, r_taken,
           r_predicted, r_preds, r_raised, r_missed, r_reply>>

\* one ExpiringCache
xvars == <<x_entries, x_now, x_got, x_last>>

\* the bounded model cache
mvars == <<m_cache, m_stored, m_pc, m_user, m_res, m_loads, m_calls, m_clock, m_time,
           m_evicted>>

\* the upload tokens
tvars == <<t_now, t_token, t_issue, t_result>>

\* the receive loop's buffer
bvars == <<b_pc, b_buffer, b_lines, b_handled, b_stream, b_cuts>>

\* one periodic task and its timers
ivars == <<i_clock, i_timers, i_running, i_started, i_returned>>

\* the caches, the tokens, the receive buffer and the timers
gvars == <<xvars, mvars, tvars, bvars, ivars>>

\* the recommendation engine and what stands beside it
evars == <<uvars, kvars, rvars, gvars>>

\* the operations that are followed call by call
fvars == <<svars, dvars, evars>>

vars == <<qvars, cvars, fvars>>

----------------------------------------------------------------------------
(* Bounds of the model *)

MaxJobs == 3

MaxParJobs == 2

MaxTime == 1

MaxCrashes == 1

MaxLines == 3

MaxWrites == 2
MaxText == 2
MaxCalls == 2
MaxMsg == 3
MaxBatch == 2
MaxNext == 3

\* The cache's clock runs from 0 to MaxClock
MaxClock == 2

\* model_cache_size, the maxsize of the lru_cache
ModelCacheSize == 2

\* At most MaxGets calls of get_model
MaxGets == 4

\* The 12 hours a token lives by default, in ticks of the tokens' clock
TokenLife == 1

\* recv returns at most MaxChunk bytes at a time, MaxStream bytes in all
MaxChunk == 2

MaxStream == 4

\* The task's period (30 seconds for report_training_status) in ticks of the
\* timers' clock, which runs from 0 to MaxTimerClock
TimerInterval == 2

MaxTimerClock == 8

----------------------------------------------------------------------------
(* train.py: Status, the table and the queries *)

not_started == "not started"

running == "running"

failed == "failed"

success == "success"

Status == {not_started, running, failed, success}

\* The (user, str(age)) pairs the uploader enqueues: no age filter, or a
\* timedelta.
Uploads == {[user |-> "alice", age |-> "None"],
            [user |-> "bob", age |-> "7 days, 0:00:00"]}

NoConn == "none"

Workers == {"w1", "w2"}

Pollers == {"p1", "p2"}

NoJob == [rowid |-> 0, user |-> "", age |-> ""]

\* insert into queue values (?, ?, ?, datetime('now'), 0): the rowid is the
\* next one, the row is not_started and not reported.
InsertRow(db, user, age, time) ==
    Append(db, [user |-> user, age |-> age, status |-> not_started,
                insert_time |-> time, reported |-> FALSE])

\* faulty variant: the where clause excludes only the successful jobs
GetJobCandidatesNotSuccess(db) == {r \in DOMAIN db : db[r].status # success}

\* faulty variant: the where clause also takes the jobs left running
GetJobCandidatesStale(db) ==
    {r \in DOMAIN db : db[r].status \in {not_started, running}}

\* where status=?  (Status.not_started.value)
GetJobCandidates(db) == {r \in DOMAIN db : db[r].status = not_started}

\* faulty variant: among rows of equal insert_time the last one scanned comes first
OrderedFirstLatestTie(db, rows) ==
    CHOOSE r \in rows : \A s \in rows :
        \/ db[r].insert_time < db[s].insert_time
        \/ (db[r].insert_time = db[s].insert_time /\ r >= s)

\* faulty variant: order by insert_time desc
OrderedLast(db, rows) ==
    CHOOSE r \in rows : \A s \in rows :
        \/ db[r].insert_time > db[s].insert_time
        \/ (db[r].insert_time = db[s].insert_time /\ r <= s)

\* order by insert_time limit 1: sqlite's sorter keeps the scan order (the
\* rowid order) among rows of equal insert_time.
OrderedFirst(db, rows) ==
    CHOOSE r \in rows : \A s \in rows :
        \/ db[r].insert_time < db[s].insert_time
        \/ (db[r].insert_time = db[s].insert_time /\ r <= s)

\* TrainQueue.get_job: NoJob stands for raise Empty.
get_job(db) ==
    IF GetJobCandidates(db) = {} THEN NoJob
    ELSE LET r == OrderedFirst(db, GetJobCandidates(db))
         IN [rowid |-> r, user |-> db[r].user, age |-> db[r].age]

\* update queue set status=? where rowid=?
update_status(db, rowid, status) ==
    IF rowid \in DOMAIN db THEN [db EXCEPT ![rowid].status = status] ELSE db

\* update queue set reported=1 where rowid=?
SetReported(db, rowid) ==
    IF rowid \in DOMAIN db THEN [db EXCEPT ![rowid].reported = TRUE] ELSE db

\* where not reported and (status == ? or status == ?)
IsCompletedUnreported(row) ==
    ~row.reported /\ (row.status = success \/ row.status = failed)

RECURSIVE SelectCompleted(_, _)
\* select rowid, user, status from queue where ...: a table scan in rowid order
SelectCompleted(db, from) ==
    IF from > Len(db) THEN <<>>
    ELSE IF IsCompletedUnreported(db[from])
         THEN <<[rowid |-> from, user |-> db[from].user, status |-> db[from].status]>>
              \o SelectCompleted(db, from + 1)
         ELSE SelectCompleted(db, from + 1)

\* The connections whose SELECT statement is still active (SHARED lock held):
\* a cursor is reset when next() has stepped past its last row.
Reading(c) == c \in Pollers /\ pcur[c] # <<>>

\* commit() needs the EXCLUSIVE lock: no other connection may hold SHARED.
CanCommit(c) == \A p \in Pollers \ {c} : ~Reading(p)

----------------------------------------------------------------------------
\* The threads that write to the socket besides the receive thread: the
\* threads _privmsg spawns and the periodic task's timer thread.
HandlerThreads == {"h1", "h2"}

TimerThread == "timer"

Threads == HandlerThreads \cup {TimerThread}

Listener == "listen"

Free == "free"

\* no call of Client.send is under way
SendInit ==
    /\ s_pc = "idle"
    /\ s_text = <<>>
    /\ s_exc = "none"
    /\ s_wrote = <<>>
    /\ s_was_running = TRUE
    /\ s_calls = 0

\* The threads that call next(self._candidates)
SupplyCallers == {"u1", "u2"}

\* No candidate
NoCandidate == [refill |-> 0, idx |-> 0, approved |-> "none", parses |-> FALSE, hits |-> 0]

\* What a call of next() gave: the exception it raised, or the candidate
Nothing == [exc |-> "none", value |-> NoCandidate]

\* CombineHandler.__init__: LockedIterator(self._gen_candidates()); the
\* generator has not run yet, its list is the empty one of its first line
SupplyInit ==
    /\ pool = <<>>
    /\ gen_finished = FALSE
    /\ supply_lock = Free
    /\ n_pc = [c \in SupplyCallers |-> "idle"]
    /\ n_got = [c \in SupplyCallers |-> Nothing]
    /\ yielded = <<>>
    /\ fetched = <<>>
    /\ refills = 0
    /\ n_calls = 0

\* _predict has not been called
PredictInit ==
    /\ k_pc = "idle"
    /\ k_with = {}
    /\ k_without = {}
    /\ k_model = [m \in [{"hard_rock", "double_time", "half_time", "hidden"} -> BOOLEAN] |->
                      [raised |-> FALSE, pp_mean |-> 0, accuracy_mean |-> 0]]
    /\ k_result = <<>>

\* The keys of the cache: user names
CacheKeys == {"u1", "u2"}

\* The values of the cache
CacheValues == {1, 2}

\* No _Entry under the key
NoEntry == [present |-> FALSE, value |-> 0, expires |-> 0]

\* No __getitem__ yet
NoGet == [key |-> "none", hit |-> FALSE, value |-> 0, at |-> 0]

\* ExpiringCache.__init__: self._entries = {}
CacheInit ==
    /\ x_entries = [k \in CacheKeys |-> NoEntry]
    /\ x_now = 0
    /\ x_got = NoGet
    /\ x_last = [k \in CacheKeys |-> NoEntry]

\* A Fernet token: the secret it was made with and the plaintext, itself a
\* JSON object (its pairs) or something that is none
Encrypt(secret, text) == [secret |-> secret, text |-> text]

\* No token issued
NoIssue == [issued |-> FALSE, user |-> "", expires |-> 0]

\* read_token not called yet
NoRead == [kind |-> "none", user |-> "", at |-> 0]

\* no token has been presented
TokenInit ==
    /\ t_now = 0
    /\ t_token = Encrypt("none", [json |-> FALSE, pairs |-> <<>>])
    /\ t_issue = NoIssue
    /\ t_result = NoRead

\* _periodic_task.run has returned: start() has made the first timer
TimerInit ==
    /\ i_clock = 0
    /\ i_timers = <<TimerInterval>>
    /\ i_running = 0
    /\ i_started = 0
    /\ i_returned = -1

\* _listen has just started: buffer = b''
BufferInit ==
    /\ b_pc = "recv"
    /\ b_buffer = <<>>
    /\ b_lines = <<>>
    /\ b_handled = <<>>
    /\ b_stream = <<>>
    /\ b_cuts = {}

\* The users who ask for their model
ModelUsers == {"a", "b", "c"}

\* The handler threads calling get_model
ModelCallers == {"g1", "g2"}

\* get_model has not returned
NoModel == [kind |-> "none", inst |-> 0]

\* lru_cache(model_cache_size)(self._get_model): nothing cached; the models
\* come to the disk one by one
ModelsInit ==
    /\ m_cache = <<>>
    /\ m_stored = {}
    /\ m_pc = [t \in ModelCallers |-> "idle"]
    /\ m_user = [t \in ModelCallers |-> "a"]
    /\ m_res = [t \in ModelCallers |-> NoModel]
    /\ m_loads = 0
    /\ m_calls = 0
    /\ m_clock = 0
    /\ m_time = [u \in ModelUsers |-> 0]
    /\ m_evicted = <<>>

\* No entry of the user in self._user_stats
NoStats == [lower_bound |-> 0, upper_bound |-> 0, cached |-> FALSE]

\* No reply
NoReply == [sent |-> FALSE, candidate |-> 0, index |-> 0]

\* recommend is not running; ExpiringCache() is empty
RecommendInit ==
    /\ r_pc = "idle"
    /\ r_has_model = FALSE
    /\ r_stats = NoStats
    /\ r_window = NoStats
    /\ r_with = {}
    /\ r_without = {}
    /\ r_n = 0
    /\ r_taken = 0
    /\ r_predicted = 0
    /\ r_preds = <<>>
    /\ r_raised = FALSE
    /\ r_missed = FALSE
    /\ r_reply = NoReply

\* A CommandFailure: whether one was raised, and its message
NoFailure == [raised |-> FALSE, text |-> <<>>]

\* no message is being dispatched
DispatchInit ==
    /\ d_pc = "idle"
    /\ d_channel = "none"
    /\ d_msg = <<>>
    /\ d_cmd = "none"
    /\ d_data = <<>>
    /\ d_invoked = <<>>
    /\ d_failure = NoFailure
    /\ d_replies = <<>>
    /\ d_exc = "none"
    /\ d_calls = 0

\* irc.Client.__init__ has returned: the handshake is written, the lock
\* exists, the receive thread runs and the periodic task's timer is armed.
ClientInit ==
    /\ client_running = TRUE
    /\ write_lock = Free
    /\ wire = <<>>
    /\ nrecv = 0
    /\ listen_pc = "loop"
    /\ task_pc = [t \in Threads |-> IF t = TimerThread THEN "armed" ELSE "unborn"]
    /\ task_left = [t \in Threads |-> 0]
    /\ sock_open = TRUE
    /\ listen_exc = "none"
    /\ close_exc = "none"
    /\ joined = FALSE

Init ==
    /\ ClientInit
    /\ SendInit
    /\ DispatchInit
    /\ SupplyInit
    /\ PredictInit
    /\ RecommendInit
    /\ CacheInit
    /\ ModelsInit
    /\ TokenInit
    /\ BufferInit
    /\ TimerInit
    /\ queue = <<>>
    /\ now = 0
    /\ dbwriter = NoConn
    /\ txn = <<>>
    /\ upc = "idle"
    /\ wpc = [w \in Workers |-> "get_job"]
    /\ wjob = [w \in Workers |-> NoJob]
    /\ wfailed = [w \in Workers |-> FALSE]
    /\ wout = [w \in Workers |-> "none"]
    /\ ppc = [p \in Pollers |-> "armed"]
    /\ pcur = [p \in Pollers |-> <<>>]
    /\ prow = [p \in Pollers |-> 0]
    /\ pout = [p \in Pollers |-> <<>>]
    /\ startlog = <<>>
    /\ returned = <<>>
    /\ sent = <<>>
    /\ crashes = 0

wvars == <<wpc, wjob, wfailed, wout>>

pvars == <<ppc, pcur, prow, pout>>

hvars == <<startlog, returned, sent, crashes>>

----------------------------------------------------------------------------
(* The wall clock *)

Tick ==
    /\ now < MaxTime
    /\ now' = now + 1
    /\ UNCHANGED <<cvars, fvars, queue, dbwriter, txn, upc, wvars, pvars, hvars>>

(* uploader: TrainQueue.enqueue_job *)

\* self._db.execute("insert into queue values (...)"): opens the transaction
EnqueueInsert(limit) ==
    /\ upc = "idle"
    /\ Len(queue) < limit
    /\ dbwriter = NoConn
    /\ \E up \in Uploads :
          txn' = InsertRow(queue, up.user, up.age, now)
    /\ dbwriter' = "up"
    /\ upc' = "commit"
    /\ UNCHANGED <<cvars, fvars, queue, now, wvars, pvars, hvars>>

\* self._db.commit()
EnqueueCommit ==
    /\ upc = "commit"
    /\ CanCommit("up")
    /\ queue' = txn
    /\ txn' = <<>>
    /\ dbwriter' = NoConn
    /\ upc' = "idle"
    /\ UNCHANGED <<cvars, fvars, now, wvars, pvars, hvars>>

enqueue_job(limit) == EnqueueInsert(limit) \/ EnqueueCommit

----------------------------------------------------------------------------
(* worker: run_train_queue *)

\* rowid, user, agestr = train_queue.get_job(); on Empty: sleep(1); continue
WGetJob(w) ==
    /\ wpc[w] = "get_job"
    /\ IF get_job(queue) = NoJob
       THEN /\ wpc' = [wpc EXCEPT ![w] = "sleep"]
            /\ UNCHANGED wjob
       ELSE /\ wpc' = [wpc EXCEPT ![w] = "upd_running"]
            /\ wjob' = [wjob EXCEPT ![w] = get_job(queue)]
    /\ UNCHANGED <<cvars, fvars, queue, now, dbwriter, txn, upc, wfailed, wout, pvars, hvars>>

WSleep(w) ==
    /\ wpc[w] = "sleep"
    /\ wpc' = [wpc EXCEPT ![w] = "get_job"]
    /\ UNCHANGED <<cvars, fvars, queue, now, dbwriter, txn, upc, wjob, wfailed, wout, pvars, hvars>>

\* update_status: the UPDATE statement; waits while another connection writes
WUpdate(w, at, status, next) ==
    /\ wpc[w] = at
    /\ dbwriter = NoConn
    /\ txn' = update_status(queue, wjob[w].rowid, status)
    /\ dbwriter' = w
    /\ wpc' = [wpc EXCEPT ![w] = next]
    /\ UNCHANGED <<cvars, fvars, queue, now, upc, wjob, wfailed, wout, pvars, hvars>>

\* update_status: self._db.commit()
WCommit(w, at, next) ==
    /\ wpc[w] = at
    /\ dbwriter = w
    /\ CanCommit(w)
    /\ queue' = txn
    /\ txn' = <<>>
    /\ dbwriter' = NoConn
    /\ wpc' = [wpc EXCEPT ![w] = next]

\* train_queue.update_status(rowid, Status.running)
WMarkRunning(w) == WUpdate(w, "upd_running", running, "commit_running")

WCommitRunning(w) ==
    /\ WCommit(w, "commit_running", "train")
    /\ startlog' = Append(startlog, [rowid |-> wjob[w].rowid, worker |-> w])
    /\ UNCHANGED <<cvars, fvars, now, upc, wjob, wfailed, wout, pvars, returned, sent, crashes>>

\* How the training step can end: the subprocess exits 0, exits non-zero, or
\* running it raises an Exception.
TrainOutcomes == {"exit0", "nonzero", "raise"}

\* faulty variant: no except clause, an exception of the training step leaves the loop
TrainResultUncaught(outcome) ==
    [failed |-> outcome = "nonzero",
     next |-> IF outcome = "raise" THEN "terminated" ELSE "upd_final"]

\* _run_train_job returns returncode != 0; except Exception: failed = True.
\* Either way control reaches the finally clause.
TrainResult(outcome) ==
    [failed |-> outcome # "exit0", next |-> "upd_final"]

WTrain(w) ==
    /\ wpc[w] = "train"
    /\ \E outcome \in TrainOutcomes :
          /\ wout' = [wout EXCEPT ![w] = outcome]
          /\ wfailed' = [wfailed EXCEPT ![w] = TrainResult(outcome).failed]
          /\ wpc' = [wpc EXCEPT ![w] = TrainResult(outcome).next]
    /\ UNCHANGED <<cvars, fvars, queue, now, dbwriter, txn, upc, wjob, pvars, hvars>>

\* Status.failed if failed else Status.success
FinalStatus(isFailed) == IF isFailed THEN failed ELSE success

\* finally: train_queue.update_status(rowid, ...)
WMarkFinal(w) == WUpdate(w, "upd_final", FinalStatus(wfailed[w]), "commit_final")

WCommitFinal(w) ==
    /\ WCommit(w, "commit_final", "get_job")
    /\ UNCHANGED <<cvars, fvars, now, upc, wjob, wfailed, wout, pvars, hvars>>

run_train_queue(w) ==
    \/ WGetJob(w)
    \/ WSleep(w)
    \/ WMarkRunning(w)
    \/ WCommitRunning(w)
    \/ WTrain(w)
    \/ WMarkFinal(w)
    \/ WCommitFinal(w)

\* The worker process is killed (a crash, a reboot): its open transaction is
\* rolled back and its locks are released.
WorkerCrash(w) ==
    /\ wpc[w] # "crashed"
    /\ crashes < MaxCrashes
    /\ crashes' = crashes + 1
    /\ wpc' = [wpc EXCEPT ![w] = "crashed"]
    /\ dbwriter' = IF dbwriter = w THEN NoConn ELSE dbwriter
    /\ txn' = IF dbwriter = w THEN <<>> ELSE txn
    /\ UNCHANGED <<cvars, fvars, queue, now, upc, wjob, wfailed, wout, pvars, startlog, returned, sent>>

\* The operator starts the training service again: a new run_train_queue.
WorkerRestart(w) ==
    /\ wpc[w] = "crashed"
    /\ wpc' = [wpc EXCEPT ![w] = "get_job"]
    /\ wjob' = [wjob EXCEPT ![w] = NoJob]
    /\ wfailed' = [wfailed EXCEPT ![w] = FALSE]
    /\ wout' = [wout EXCEPT ![w] = "none"]
    /\ UNCHANGED <<cvars, fvars, queue, now, dbwriter, txn, upc, pvars, hvars>>

----------------------------------------------------------------------------
(* bot: CombineHandler.report_training_status, a periodic task *)

\* The timer fires; self.train_queue.copy().get_completed_jobs() executes its
\* SELECT. The cursor has stepped to the first row.
PSelect(p) ==
    /\ ppc[p] = "armed"
    /\ pcur' = [pcur EXCEPT ![p] = SelectCompleted(queue, 1)]
    /\ pout' = [pout EXCEPT ![p] = <<>>]
    /\ ppc' = [ppc EXCEPT ![p] = "iter"]
    /\ UNCHANGED <<cvars, fvars, queue, now, dbwriter, txn, upc, wvars, prow, hvars>>

\* for rowid, user, status in results: next() returns the row the cursor is on
\* and steps the statement once more, which resets it after the last row;
\* out.append((user, Status(status)))
PIterNext(p) ==
    /\ ppc[p] = "iter"
    /\ pcur[p] # <<>>
    /\ prow' = [prow EXCEPT ![p] = Head(pcur[p]).rowid]
    /\ pout' = [pout EXCEPT ![p] = Append(pout[p], Head(pcur[p]))]
    /\ pcur' = [pcur EXCEPT ![p] = Tail(pcur[p])]
    /\ ppc' = [ppc EXCEPT ![p] = "update"]
    /\ UNCHANGED <<cvars, fvars, queue, now, dbwriter, txn, upc, wvars, hvars>>

\* the loop ends (StopIteration)
PIterEnd(p) ==
    /\ ppc[p] = "iter"
    /\ pcur[p] = <<>>
    /\ ppc' = [ppc EXCEPT ![p] = "commit"]
    /\ UNCHANGED <<cvars, fvars, queue, now, dbwriter, txn, upc, wvars, pcur, prow, pout, hvars>>

\* self._db.execute('update queue set reported=1 where rowid=?'): the first one
\* opens the transaction
PUpdate(p) ==
    /\ ppc[p] = "update"
    /\ dbwriter \in {NoConn, p}
    /\ txn' = SetReported(IF dbwriter = p THEN txn ELSE queue, prow[p])
    /\ dbwriter' = p
    /\ ppc' = [ppc EXCEPT ![p] = "iter"]
    /\ UNCHANGED <<cvars, fvars, queue, now, upc, wvars, pcur, prow, pout, hvars>>

\* the UPDATE finds the RESERVED lock taken while this connection's SELECT is
\* still active: sqlite3.OperationalError leaves get_completed_jobs and the
\* periodic task's wrapped_function, so start() is never called again. The
\* cursor and the copied connection are dropped.
PUpdateBusy(p) ==
    /\ ppc[p] = "update"
    /\ dbwriter \notin {NoConn, p}
    /\ Reading(p)
    /\ ppc' = [ppc EXCEPT ![p] = "dead"]
    /\ pcur' = [pcur EXCEPT ![p] = <<>>]
    /\ pout' = [pout EXCEPT ![p] = <<>>]
    /\ UNCHANGED <<cvars, fvars, queue, now, dbwriter, txn, upc, wvars, prow, hvars>>

RECURSIVE RowIds(_)
RowIds(rows) == IF rows = <<>> THEN <<>> ELSE <<Head(rows).rowid>> \o RowIds(Tail(rows))

\* self._db.commit(); return out
PCommit(p) ==
    /\ ppc[p] = "commit"
    /\ IF dbwriter = p
       THEN /\ CanCommit(p)
            /\ queue' = txn
            /\ txn' = <<>>
            /\ dbwriter' = NoConn
       ELSE UNCHANGED <<queue, txn, dbwriter>>
    /\ returned' = returned \o RowIds(pout[p])
    /\ ppc' = [ppc EXCEPT ![p] = "send"]
    /\ UNCHANGED <<cvars, fvars, now, upc, wvars, pcur, prow, pout, startlog, sent, crashes>>

\* self.send(client, user, f'model training complete: {status.value}')
PSendOk(p) ==
    /\ ppc[p] = "send"
    /\ pout[p] # <<>>
    /\ sent' = Append(sent, Head(pout[p]))
    /\ pout' = [pout EXCEPT ![p] = Tail(pout[p])]
    /\ UNCHANGED <<cvars, fvars, queue, now, dbwriter, txn, upc, wvars, ppc, pcur, prow,
                   startlog, returned, crashes>>

\* Client.send raises (the socket write fails, or user.encode('ascii') does):
\* nothing catches it in report_training_status or in wrapped_function.
PSendRaise(p) ==
    /\ ppc[p] = "send"
    /\ pout[p] # <<>>
    /\ ppc' = [ppc EXCEPT ![p] = "dead"]
    /\ pout' = [pout EXCEPT ![p] = <<>>]
    /\ UNCHANGED <<cvars, fvars, queue, now, dbwriter, txn, upc, wvars, pcur, prow, hvars>>

\* wrapped_function: underlying_function returned; start() arms the next timer
PRearm(p) ==
    /\ ppc[p] = "send"
    /\ pout[p] = <<>>
    /\ ppc' = [ppc EXCEPT ![p] = "armed"]
    /\ UNCHANGED <<cvars, fvars, queue, now, dbwriter, txn, upc, wvars, pcur, prow, pout, hvars>>

get_completed_jobs(p) ==
    \/ PSelect(p)
    \/ PIterNext(p)
    \/ PIterEnd(p)
    \/ PUpdate(p)
    \/ PUpdateBusy(p)
    \/ PCommit(p)

report_training_status(p) ==
    \/ get_completed_jobs(p)
    \/ PSendOk(p)
    \/ PSendRaise(p)
    \/ PRearm(p)

----------------------------------------------------------------------------
(* irc.py: Client *)

\* faulty variant: the write is not guarded by the lock
CanEnterWriteUnlocked(t) == TRUE

\* faulty variant: a handler keeps the lock for as long as it executes
CanEnterWriteAfterHandlers(t) ==
    /\ write_lock = Free
    /\ \A h \in HandlerThreads : task_pc[h] # "handle"

\* with self._write_lock: a thread enters when no thread holds the lock
CanEnterWrite(t) == write_lock = Free

\* self._socket.send(...) of one whole line, seen as two successive chunks
\* reaching the socket, so that a second writer in between would show.
SocketSend(t, part) ==
    wire' = Append(wire, [by |-> t, part |-> part, stopped |-> ~client_running])

\* Client.stop, called by the main thread
Stop ==
    /\ client_running
    /\ client_running' = FALSE
    /\ UNCHANGED <<qvars, fvars, lvars, write_lock, wire, nrecv, listen_pc, task_pc, task_left>>

\* faulty variant: close() releases the socket whatever the running flag
CloseRefusedNever(isRunning) == FALSE

\* Client.close: if self._running: raise ValueError('cannot close an active client')
CloseRefused(isRunning) == isRunning

\* Client.close, called by the main thread: the check, then self._socket.close()
Close ==
    /\ IF CloseRefused(client_running)
       THEN /\ close_exc' = "ValueError"
            /\ UNCHANGED sock_open
       ELSE /\ close_exc' = "none"
            /\ sock_open' = FALSE
    /\ UNCHANGED <<qvars, fvars, client_running, write_lock, wire, nrecv, listen_pc,
                   task_pc, task_left, listen_exc, joined>>

\* The receive thread has ended: its loop was left or an exception ended it.
ListenTerminated == listen_pc \in {"exited", "raised"}

\* Client.join: self._listen_thread.join() returns once the thread has ended
Join ==
    /\ ~joined
    /\ ListenTerminated
    /\ joined' = TRUE
    /\ UNCHANGED <<qvars, fvars, client_running, write_lock, wire, nrecv, listen_pc,
                   task_pc, task_left, sock_open, listen_exc, close_exc>>

\* _listen: while self._running
LLoop ==
    /\ listen_pc = "loop"
    /\ listen_pc' = IF client_running THEN "recv" ELSE "exited"
    /\ UNCHANGED <<qvars, fvars, lvars, client_running, write_lock, wire, nrecv, task_pc, task_left>>

\* The number of '!' in a sender prefix
Bangs(token) ==
    CASE token = ":nick!host" -> 1
      [] token = ":a!b!c" -> 2
      [] OTHER -> 0

\* Inbound lines as line.strip().split(b' ', 3) leaves them: at least one
\* field (the empty line gives one empty field), at most four.
Lines ==
    { <<"PING", ":srv">>,
      <<"PING">>,
      <<"">>,
      <<":srv", "NOTICE", "bot", ":hello">>,
      <<":nick!host", "PRIVMSG", "bot", ":hello">>,
      <<":nick!host", "PRIVMSG", "bot">>,
      <<":nick", "PRIVMSG", "bot", ":hello">>,
      <<":a!b!c", "PRIVMSG", "bot", ":hello">> }

\* _listen, the body of for line in lines: what the line leads to. parts[1]
\* of a one-field line is an IndexError, as are parts[2] and parts[3] of a
\* short PRIVMSG; name, _ = parts[0][1:].split(b'!') is a ValueError unless
\* the prefix holds exactly one '!'.
ParseLine(parts) ==
    IF parts[1] = "PING"
    THEN IF Len(parts) < 2 THEN "IndexError" ELSE "pong"
    ELSE IF Len(parts) < 2 THEN "IndexError"
    ELSE IF parts[2] # "PRIVMSG" THEN "skip"
    ELSE IF Bangs(parts[1]) # 1 THEN "ValueError"
    ELSE IF Len(parts) < 4 THEN "IndexError"
    ELSE "privmsg"

\* _listen: recv returns a line and the line is parsed. Nothing in _listen
\* catches an exception: it ends the receive thread. On a closed socket recv
\* raises OSError, unless the call was already waiting for data; on an open
\* one it raises ConnectionResetError when the server has reset the connection.
LRecv ==
    /\ listen_pc = "recv"
    /\ nrecv < MaxLines
    /\ nrecv' = nrecv + 1
    /\ \/ \E line \in Lines :
             LET r == ParseLine(line) IN
             /\ listen_pc' = CASE r = "pong" -> "pong"
                               [] r = "privmsg" -> "privmsg"
                               [] r = "skip" -> "loop"
                               [] OTHER -> "raised"
             /\ listen_exc' = IF r \in {"pong", "privmsg", "skip"} THEN listen_exc ELSE r
       \/ /\ ~sock_open
          /\ listen_pc' = "raised"
          /\ listen_exc' = "OSError"
       \/ /\ sock_open
          /\ listen_pc' = "raised"
          /\ listen_exc' = "ConnectionResetError"
    /\ UNCHANGED <<qvars, fvars, client_running, write_lock, wire, task_pc, task_left,
                   sock_open, close_exc, joined>>

\* _check_running: raise ValueError('operation on closed client'); nothing in
\* _listen catches it, the receive thread ends.
LClosed ==
    /\ listen_pc \in {"pong", "privmsg"}
    /\ ~client_running
    /\ listen_pc' = "raised"
    /\ listen_exc' = "closed client"
    /\ UNCHANGED <<qvars, fvars, client_running, write_lock, wire, nrecv, task_pc, task_left,
                   sock_open, close_exc, joined>>

\* _pong: _check_running lets the call through
LPongEnter ==
    /\ listen_pc = "pong"
    /\ client_running
    /\ listen_pc' = "pong_lock"
    /\ UNCHANGED <<qvars, fvars, lvars, client_running, write_lock, wire, nrecv, task_pc, task_left>>

\* _pong: with self._write_lock
LPongAcquire ==
    /\ listen_pc = "pong_lock"
    /\ CanEnterWrite(Listener)
    /\ write_lock' = Listener
    /\ listen_pc' = "pong_w1"
    /\ UNCHANGED <<qvars, fvars, lvars, client_running, wire, nrecv, task_pc, task_left>>

\* _pong: self._socket.send(b'PONG %b\r\n' % data); on a closed socket it
\* raises OSError, which leaves the with block and ends the receive thread
LPongWrite ==
    /\ listen_pc \in {"pong_w1", "pong_w2"}
    /\ IF sock_open
       THEN /\ SocketSend(Listener, IF listen_pc = "pong_w1" THEN 1 ELSE 2)
            /\ listen_pc' = IF listen_pc = "pong_w1" THEN "pong_w2" ELSE "pong_unlock"
            /\ UNCHANGED <<write_lock, listen_exc>>
       ELSE /\ listen_pc' = "raised"
            /\ listen_exc' = "OSError"
            /\ write_lock' = Free
            /\ UNCHANGED wire
    /\ UNCHANGED <<qvars, fvars, client_running, nrecv, task_pc, task_left,
                   sock_open, close_exc, joined>>

\* _pong: the with block is left
LPongRelease ==
    /\ listen_pc = "pong_unlock"
    /\ write_lock' = Free
    /\ listen_pc' = "loop"
    /\ UNCHANGED <<qvars, fvars, lvars, client_running, wire, nrecv, task_pc, task_left>>

\* faulty variant: _privmsg goes on whatever the running flag
PrivmsgRefusedNever(isRunning) == FALSE

\* _privmsg is decorated with _check_running: if not self._running: raise
PrivmsgRefused(isRunning) == ~isRunning

\* _privmsg: a new daemon thread running _handle_target
LSpawn ==
    /\ listen_pc = "privmsg"
    /\ ~PrivmsgRefused(client_running)
    /\ \E t \in HandlerThreads :
          /\ task_pc[t] = "unborn"
          /\ task_pc' = [task_pc EXCEPT ![t] = "handle"]
    /\ listen_pc' = "loop"
    /\ UNCHANGED <<qvars, fvars, lvars, client_running, write_lock, wire, nrecv, task_left>>

\* _handle_target: the message handler runs and sends no reply (no command
\* matched), one reply, or two (gen_token).
THandle(t) ==
    /\ t \in HandlerThreads
    /\ task_pc[t] = "handle"
    /\ \E n \in 0..2 :
          /\ task_left' = [task_left EXCEPT ![t] = n]
          /\ task_pc' = [task_pc EXCEPT ![t] = IF n = 0 THEN "done" ELSE "send"]
    /\ UNCHANGED <<qvars, fvars, lvars, client_running, write_lock, wire, nrecv, listen_pc>>

\* faulty variant: the handler's exception reaches the receive loop
HandlerExceptionEndsLoop(lpc) == "raised"

\* _handle_target: except Exception: log.exception('handler failure'). The
\* exception stays in the handler's thread; the receive thread is where it was.
HandlerExceptionCaught(lpc) == lpc

\* _handle_target: the message handler raises an exception
THandleRaise(t) ==
    /\ t \in HandlerThreads
    /\ task_pc[t] = "handle"
    /\ task_pc' = [task_pc EXCEPT ![t] = "logged"]
    /\ listen_pc' = HandlerExceptionCaught(listen_pc)
    /\ UNCHANGED <<qvars, fvars, lvars, client_running, write_lock, wire, nrecv, task_left>>

\* The periodic task's timer fires: report_training_status sends one message
\* per completed job, then start() arms the next timer.
TimerFire ==
    /\ task_pc[TimerThread] = "armed"
    /\ Len(wire) < 2 * MaxWrites
    /\ \E n \in 1..2 :
          /\ task_left' = [task_left EXCEPT ![TimerThread] = n]
          /\ task_pc' = [task_pc EXCEPT ![TimerThread] = "send"]
    /\ UNCHANGED <<qvars, fvars, lvars, client_running, write_lock, wire, nrecv, listen_pc>>

\* Client.send: with self._write_lock
SendAcquire(t) ==
    /\ task_pc[t] = "send"
    /\ CanEnterWrite(t)
    /\ write_lock' = t
    /\ task_pc' = [task_pc EXCEPT ![t] = "send_w1"]
    /\ UNCHANGED <<qvars, fvars, lvars, client_running, wire, nrecv, listen_pc, task_left>>

\* Client.send: self._socket.send(b'PRIVMSG %b %b\r\n' % ...); on a closed
\* socket it raises OSError, which leaves the with block: _handle_target logs
\* it in a handler thread, and it ends the periodic task's thread for good.
SendWrite(t) ==
    /\ task_pc[t] \in {"send_w1", "send_w2"}
    /\ IF sock_open
       THEN /\ SocketSend(t, IF task_pc[t] = "send_w1" THEN 1 ELSE 2)
            /\ task_pc' = [task_pc EXCEPT ![t] =
                              IF task_pc[t] = "send_w1" THEN "send_w2" ELSE "send_unlock"]
            /\ UNCHANGED write_lock
       ELSE /\ task_pc' = [task_pc EXCEPT ![t] =
                              IF t = TimerThread THEN "dead" ELSE "logged"]
            /\ write_lock' = Free
            /\ UNCHANGED wire
    /\ UNCHANGED <<qvars, fvars, lvars, client_running, nrecv, listen_pc, task_left>>

\* Client.send: the with block is left; the caller goes on with its next
\* message, ends (a handler thread) or arms its timer again (the periodic task)
SendRelease(t) ==
    /\ task_pc[t] = "send_unlock"
    /\ write_lock' = Free
    /\ task_left' = [task_left EXCEPT ![t] = task_left[t] - 1]
    /\ task_pc' = [task_pc EXCEPT ![t] =
                      IF task_left[t] > 1 THEN "send"
                      ELSE IF t = TimerThread THEN "armed" ELSE "done"]
    /\ UNCHANGED <<qvars, fvars, lvars, client_running, wire, nrecv, listen_pc>>

send(t) == SendAcquire(t) \/ SendWrite(t) \/ SendRelease(t)

listen ==
    \/ LLoop
    \/ LRecv
    \/ LClosed
    \/ LPongEnter
    \/ LPongAcquire
    \/ LPongWrite
    \/ LPongRelease
    \/ LSpawn

----------------------------------------------------------------------------
(* irc.py: Client.send, one call followed through *)

\* The characters of a message: a letter, the two line terminators, and a
\* character outside ASCII.
Chars == {"a", "\n", "\r", "é"}

\* The line terminators of the IRC protocol
Terminators == {"\n", "\r"}

SeqsUpTo(S, n) == UNION {[1..k -> S] : k \in 0..n}

Texts == SeqsUpTo(Chars, MaxText)

Contains(text, c) == \E i \in 1..Len(text) : text[i] = c

\* message.encode('ascii') raises UnicodeEncodeError on any other character
IsAscii(text) == \A i \in 1..Len(text) : text[i] # "é"

\* The thread that calls Client.send
Caller == "caller"

\* faulty variant: send is refused once the client was stopped
SendRefusedWhenStopped(isRunning) == ~isRunning

\* Client.send is not wrapped by _check_running: it does not look at _running
SendRefused(isRunning) == FALSE

\* faulty variant: both line terminators are looked for
HasNewlineOrReturn(text) == Contains(text, "\n") \/ Contains(text, "\r")

\* Client.send: if '\n' in message
HasNewline(text) == Contains(text, "\n")

\* Client.send: b'PRIVMSG %b %b\r\n' % (user.encode('ascii'), message.encode('ascii'))
Encode(text) == <<"PRIVMSG", " ", "user", " ">> \o text \o <<"\r", "\n">>

\* The number of lines the server reads from the bytes: a line starts at
\* every character that is no terminator and follows a terminator or nothing.
NLines(bytes) ==
    Cardinality({i \in 1..Len(bytes) :
                    /\ bytes[i] \notin Terminators
                    /\ (i = 1 \/ bytes[i - 1] \in Terminators)})

\* Client.send is called with some message
SendCall ==
    /\ s_pc \in {"idle", "done"}
    /\ s_calls < MaxCalls
    /\ s_calls' = s_calls + 1
    /\ \E text \in Texts : s_text' = text
    /\ s_exc' = "none"
    /\ s_wrote' = <<>>
    /\ s_was_running' = client_running
    /\ s_pc' = "called"
    /\ UNCHANGED <<qvars, cvars, dvars, evars>>

\* Client.send: raise ValueError('cannot send messages with newlines')
SendCheck ==
    /\ s_pc = "called"
    /\ IF SendRefused(client_running)
       THEN s_exc' = "closed client" /\ s_pc' = "done"
       ELSE IF HasNewline(s_text)
       THEN s_exc' = "ValueError" /\ s_pc' = "done"
       ELSE s_exc' = s_exc /\ s_pc' = "lock"
    /\ UNCHANGED <<qvars, cvars, dvars, evars, s_text, s_wrote, s_was_running, s_calls>>

\* Client.send: with self._write_lock
SendLock ==
    /\ s_pc = "lock"
    /\ CanEnterWrite(Caller)
    /\ write_lock' = Caller
    /\ s_pc' = "locked"
    /\ UNCHANGED <<qvars, lvars, client_running, wire, nrecv, listen_pc, task_pc, task_left,
                   dvars, evars, s_text, s_exc, s_wrote, s_was_running, s_calls>>

\* Client.send: the bytes are built, which raises UnicodeEncodeError on a
\* character outside ASCII, and then handed to self._socket.send
SendEncodeWrite ==
    /\ s_pc = "locked"
    /\ IF IsAscii(s_text)
       THEN s_wrote' = Encode(s_text) /\ s_exc' = s_exc
       ELSE s_wrote' = s_wrote /\ s_exc' = "UnicodeEncodeError"
    /\ s_pc' = "unlock"
    /\ UNCHANGED <<qvars, cvars, dvars, evars, s_text, s_was_running, s_calls>>

\* Client.send: the with block is left, the call returns None or raises
SendUnlock ==
    /\ s_pc = "unlock"
    /\ write_lock' = Free
    /\ s_pc' = "done"
    /\ UNCHANGED <<qvars, lvars, client_running, wire, nrecv, listen_pc, task_pc, task_left,
                   dvars, evars, s_text, s_exc, s_wrote, s_was_running, s_calls>>

client_send == SendCall \/ SendCheck \/ SendLock \/ SendEncodeWrite \/ SendUnlock

----------------------------------------------------------------------------
(* handler.py: Handler.__call__ of a CombineHandler, one message at a time *)

\* The characters of a message: three command names written as one character
\* each ("ACTION" for '\x01ACTION'), the text osu!'s /np puts after ACTION,
\* the space, another whitespace character and one outside ASCII.
NowPlaying == "is listening to [https://osu.ppy.sh/b/1"

MsgChars == {"!r", "!gen-token", "ACTION", NowPlaying, " ", "\t", "é"}

Msgs == SeqsUpTo(MsgChars, MaxMsg)

\* The bot's own name, the one channel CombineHandler.__init__ listens to
\* (private messages), and a public channel.
BotUser == "bot"

MsgChannels == {BotUser, "#osu"}

\* cls._commands as __init_subclass__ fills it from the @command decorators
CommandNames == {<<"!r">>, <<"!gen-token">>, <<"ACTION">>}

Commands(name) ==
    CASE name = <<"!r">> -> "recommend"
      [] name = <<"!gen-token">> -> "gen_token"
      [] OTHER -> "np"

\* faulty variant: the message is handled whatever its channel
ShouldHandleAnyMessage(channel) == TRUE

\* Handler.should_handle_message: channel in self._channels
should_handle_message(channel) == channel \in {BotUser}

\* str.split(' ', 1): the message is cut at its first space only
RECURSIVE SplitAt(_, _)
SplitAt(msg, i) ==
    IF i > Len(msg) THEN <<msg>>
    ELSE IF msg[i] = " " THEN <<SubSeq(msg, 1, i - 1), SubSeq(msg, i + 1, Len(msg))>>
    ELSE SplitAt(msg, i + 1)

Split(msg) == SplitAt(msg, 1)

\* repr() of a str, as {msg!r} formats it: quotes around it, a tab escaped,
\* a printable character outside ASCII kept as it is
Repr(text) ==
    <<"'">> \o [i \in 1..Len(text) |-> IF text[i] = "\t" THEN "\\t" ELSE text[i]] \o <<"'">>

Raise(text) == [replies |-> <<>>, failure |-> [raised |-> TRUE, text |-> text]]

Reply(texts) == [replies |-> texts, failure |-> NoFailure]

\* What a command function does with its argument: the replies it sends and
\* the CommandFailure it raises. recommend fails when the user has no model,
\* when an argument is no mod, or when candidates run out, and raises before
\* it sends; gen_token fails on any argument and else sends two messages; np
\* returns without a word when _np_pattern does not match at the start of the
\* argument, and else sends the beatmap's result, after the no-model message
\* when the user has no model.
CommandOutcomes(f, data) ==
    IF f = "np"
    THEN IF data # <<>> /\ data[1] = NowPlaying
         THEN {Reply(<<<<"result">>>>),
               Reply(<<<<"I haven't trained a model for you yet.">>, <<"result">>>>)}
         ELSE {Reply(<<>>)}
    ELSE IF f = "recommend"
    THEN {Raise(<<"I haven't trained a model for you yet.">>),
          Raise(<<"not enough candidate beatmaps, try again later">>),
          Reply(<<<<"result">>>>)}
         \cup (IF \E i \in 1..Len(data) : data[i] \notin {" ", "\t"}
               THEN {Raise(<<"failed to parse mods from ">> \o Repr(data))}
               ELSE {})
    ELSE IF data # <<>>
         THEN {Raise(<<"gen-token takes no arguments, got: ">> \o Repr(data))}
         ELSE {Reply(<<<<"token: ">>, <<"To copy the token, type /savelog">>>>)}

\* What Client.send(user, text) raises, "none" when the text is written
SendRaises(text) ==
    IF HasNewline(text) THEN "ValueError"
    ELSE IF ~IsAscii(text) THEN "UnicodeEncodeError"
    ELSE "none"

\* f'Error: {e}'
ErrorReply(failure) == <<"Error: ">> \o failure.text

\* _handle_target or the REPL calls the handler with a message
DCall ==
    /\ d_pc \in {"idle", "done"}
    /\ d_calls < MaxCalls
    /\ d_calls' = d_calls + 1
    /\ \E channel \in MsgChannels : d_channel' = channel
    /\ \E msg \in Msgs : d_msg' = msg
    /\ d_cmd' = "none"
    /\ d_data' = <<>>
    /\ d_invoked' = <<>>
    /\ d_failure' = NoFailure
    /\ d_replies' = <<>>
    /\ d_exc' = "none"
    /\ d_pc' = "filter"
    /\ UNCHANGED <<qvars, cvars, svars, evars>>

\* __call__: if not self.should_handle_message(user, channel): return
DFilter ==
    /\ d_pc = "filter"
    /\ d_pc' = IF should_handle_message(d_channel) THEN "lookup" ELSE "done"
    /\ UNCHANGED <<qvars, cvars, svars, evars, d_channel, d_msg, d_cmd, d_data, d_invoked,
                   d_failure, d_replies, d_exc, d_calls>>

\* __call__: the split, and f = self._commands[command], a KeyError returns
DLookup ==
    /\ d_pc = "lookup"
    /\ LET split == Split(d_msg)
           command == split[1]
       IN  IF command \in CommandNames
           THEN /\ d_cmd' = Commands(command)
                /\ d_data' = IF Len(split) = 1 THEN <<>> ELSE split[2]
                /\ d_pc' = "invoke"
           ELSE /\ UNCHANGED <<d_cmd, d_data>>
                /\ d_pc' = "done"
    /\ UNCHANGED <<qvars, cvars, svars, evars, d_channel, d_msg, d_invoked, d_failure,
                   d_replies, d_exc, d_calls>>

\* __call__: f(self, client, user, data)
DInvoke ==
    /\ d_pc = "invoke"
    /\ d_invoked' = Append(d_invoked, [f |-> d_cmd, data |-> d_data])
    /\ \E out \in CommandOutcomes(d_cmd, d_data) :
          /\ d_replies' = d_replies \o out.replies
          /\ d_failure' = out.failure
          /\ d_pc' = IF out.failure.raised THEN "except" ELSE "done"
    /\ UNCHANGED <<qvars, cvars, svars, evars, d_channel, d_msg, d_cmd, d_data, d_exc, d_calls>>

\* __call__: except CommandFailure as e: self.send(client, user, f'Error: {e}');
\* what Client.send raises leaves __call__
DReportFailure ==
    /\ d_pc = "except"
    /\ LET exc == SendRaises(ErrorReply(d_failure))
       IN  /\ d_exc' = exc
           /\ d_replies' = IF exc = "none"
                           THEN Append(d_replies, ErrorReply(d_failure))
                           ELSE d_replies
    /\ d_pc' = "done"
    /\ UNCHANGED <<qvars, cvars, svars, evars, d_channel, d_msg, d_cmd, d_data, d_invoked,
                   d_failure, d_calls>>

dispatch == DCall \/ DFilter \/ DLookup \/ DInvoke \/ DReportFailure

----------------------------------------------------------------------------
(* handler.py: _gen_candidates behind utils.py: LockedIterator *)

\* What the osu client can return for one beatmap of a refill: a ranked one
\* that parses with two hit objects, one with a single hit object, one whose
\* .osu file does not parse, and one that is not ranked.
RawKinds ==
    { [approved |-> "ranked", parses |-> TRUE, hits |-> 2],
      [approved |-> "ranked", parses |-> TRUE, hits |-> 1],
      [approved |-> "ranked", parses |-> FALSE, hits |-> 0],
      [approved |-> "pending", parses |-> TRUE, hits |-> 2] }

\* The results of self.osu_client.beatmap(...): any list of raw candidates
RawBatches == SeqsUpTo(RawKinds, MaxBatch)

\* The objects of refill number k: each refill builds new ones
Instances(batch, k) ==
    [i \in 1..Len(batch) |->
        [refill |-> k, idx |-> i, approved |-> batch[i].approved,
         parses |-> batch[i].parses, hits |-> batch[i].hits]]

\* faulty variant: a beatmap that does not parse ends the refill loop
RECURSIVE FilterUntilFailure(_, _, _)
FilterUntilFailure(raw, i, acc) ==
    IF i > Len(raw) THEN acc
    ELSE IF raw[i].approved # "ranked" THEN FilterUntilFailure(raw, i + 1, acc)
    ELSE IF ~raw[i].parses THEN acc
    ELSE IF raw[i].hits >= 2 THEN FilterUntilFailure(raw, i + 1, Append(acc, raw[i]))
    ELSE FilterUntilFailure(raw, i + 1, acc)

\* _gen_candidates: for raw_candidate in raw_candidates, from item i on:
\* continue unless ranked, continue when .beatmap(save=True) raises, append
\* when len(beatmap.hit_objects) >= 2
RECURSIVE FilterCandidates(_, _, _)
FilterCandidates(raw, i, acc) ==
    IF i > Len(raw) THEN acc
    ELSE IF raw[i].approved # "ranked" THEN FilterCandidates(raw, i + 1, acc)
    ELSE IF ~raw[i].parses THEN FilterCandidates(raw, i + 1, acc)
    ELSE IF raw[i].hits >= 2 THEN FilterCandidates(raw, i + 1, Append(acc, raw[i]))
    ELSE FilterCandidates(raw, i + 1, acc)

\* random.shuffle(candidates): any order of the same elements
Shuffles(list) ==
    { [i \in 1..Len(list) |-> list[f[i]]] :
        f \in {g \in [1..Len(list) -> 1..Len(list)] :
                  \A i, j \in 1..Len(list) : g[i] = g[j] => i = j} }

\* faulty variant: the list is never refilled
NeedsRefillNever(list) == FALSE

\* _gen_candidates: if not candidates
NeedsRefill(list) == list = <<>>

\* faulty variant: next() runs the generator without the lock
CanEnterNextUnlocked(c) == TRUE

\* LockedIterator.__next__: with self._lock
CanEnterNext(c) == supply_lock = Free

\* A caller starts next(self._candidates)
NextCall(c) ==
    /\ n_pc[c] = "idle"
    /\ n_calls < MaxNext
    /\ n_calls' = n_calls + 1
    /\ n_pc' = [n_pc EXCEPT ![c] = "lock"]
    /\ n_got' = [n_got EXCEPT ![c] = Nothing]
    /\ UNCHANGED <<gvars, qvars, cvars, svars, dvars, kvars, rvars, pool, gen_finished, supply_lock, yielded,
                   fetched, refills>>

\* LockedIterator.__next__: the lock is taken
NextAcquire(c) ==
    /\ n_pc[c] = "lock"
    /\ CanEnterNext(c)
    /\ supply_lock' = c
    /\ n_pc' = [n_pc EXCEPT ![c] = "resume"]
    /\ UNCHANGED <<gvars, qvars, cvars, svars, dvars, kvars, rvars, pool, gen_finished, n_got, yielded,
                   fetched, refills, n_calls>>

\* next(self._iterator): a generator that an exception has ended raises
\* StopIteration, which leaves the with block; a live one runs on from its
\* yield (or its start) to `if not candidates`
GenResume(c) ==
    /\ n_pc[c] = "resume"
    /\ IF gen_finished
       THEN /\ n_got' = [n_got EXCEPT ![c] = [exc |-> "StopIteration", value |-> NoCandidate]]
            /\ n_pc' = [n_pc EXCEPT ![c] = "idle"]
            /\ supply_lock' = Free
       ELSE /\ n_pc' = [n_pc EXCEPT ![c] = IF NeedsRefill(pool) THEN "fetch" ELSE "pop"]
            /\ UNCHANGED <<n_got, supply_lock>>
    /\ UNCHANGED <<gvars, qvars, cvars, svars, dvars, kvars, rvars, pool, gen_finished, yielded, fetched,
                   refills, n_calls>>

\* _gen_candidates: the refill. self.osu_client.beatmap(...) returns, the
\* loop keeps the eligible beatmaps, random.shuffle orders them
GenRefill(c) ==
    /\ n_pc[c] = "fetch"
    /\ \E batch \in RawBatches :
          LET raw == Instances(batch, refills + 1) IN
          /\ fetched' = raw
          /\ \E shuffled \in Shuffles(FilterCandidates(raw, 1, <<>>)) : pool' = shuffled
    /\ refills' = refills + 1
    /\ n_pc' = [n_pc EXCEPT ![c] = "pop"]
    /\ UNCHANGED <<gvars, qvars, cvars, svars, dvars, kvars, rvars, gen_finished, supply_lock, n_got, yielded,
                   n_calls>>

\* _gen_candidates: yield candidates.pop(). pop takes the last element; on
\* an empty list it raises IndexError, which ends the generator for good and
\* leaves next() and the with block
GenPop(c) ==
    /\ n_pc[c] = "pop"
    /\ IF pool = <<>>
       THEN /\ gen_finished' = TRUE
            /\ n_got' = [n_got EXCEPT ![c] = [exc |-> "IndexError", value |-> NoCandidate]]
            /\ n_pc' = [n_pc EXCEPT ![c] = "idle"]
            /\ supply_lock' = Free
            /\ UNCHANGED <<pool, yielded>>
       ELSE /\ pool' = SubSeq(pool, 1, Len(pool) - 1)
            /\ n_got' = [n_got EXCEPT ![c] = [exc |-> "none", value |-> pool[Len(pool)]]]
            /\ yielded' = Append(yielded, pool[Len(pool)])
            /\ n_pc' = [n_pc EXCEPT ![c] = "unlock"]
            /\ UNCHANGED <<gen_finished, supply_lock>>
    /\ UNCHANGED <<gvars, qvars, cvars, svars, dvars, kvars, rvars, fetched, refills, n_calls>>

\* LockedIterator.__next__: the with block is left, the candidate returned
NextRelease(c) ==
    /\ n_pc[c] = "unlock"
    /\ supply_lock' = Free
    /\ n_pc' = [n_pc EXCEPT ![c] = "idle"]
    /\ UNCHANGED <<gvars, qvars, cvars, svars, dvars, kvars, rvars, pool, gen_finished, n_got, yielded,
                   fetched, refills, n_calls>>

next_candidate(c) ==
    \/ NextCall(c)
    \/ NextAcquire(c)
    \/ GenResume(c)
    \/ GenRefill(c)
    \/ GenPop(c)
    \/ NextRelease(c)

----------------------------------------------------------------------------
(* handler.py: powerset and CombineHandler._predict *)

\* CombineHandler._mods, its keys in the order of the dict
Mods == <<"hard_rock", "double_time", "half_time", "hidden">>

AllMods == {Mods[i] : i \in 1..Len(Mods)}

\* itertools.combinations(values, n): the n-element subsequences of values,
\* those with the first element first
RECURSIVE Combinations(_, _)
Combinations(values, n) ==
    IF n = 0 THEN << <<>> >>
    ELSE IF Len(values) < n THEN <<>>
    ELSE LET rest == Tail(values)
             withFirst == Combinations(rest, n - 1)
         IN  [i \in 1..Len(withFirst) |-> <<Head(values)>> \o withFirst[i]]
             \o Combinations(rest, n)

\* powerset: chain.from_iterable(combinations(values, n) for n in
\* range(len(values) + 1)), from size n on
RECURSIVE PowersetFrom(_, _)
PowersetFrom(values, n) ==
    IF n > Len(values) THEN <<>>
    ELSE Combinations(values, n) \o PowersetFrom(values, n + 1)

powerset(values) == PowersetFrom(values, 0)

\* _mod_powerset = list(powerset(_mods))
mod_powerset == powerset(Mods)

\* k in mods, for a tuple mods
InTuple(k, mods) == \E i \in 1..Len(mods) : mods[i] = k

\* faulty variant: the pinned-off mods are not enforced
MaskAllowedIgnoringWithout(mods, with_mods, without_mods) ==
    \A k \in with_mods : InTuple(k, mods)

\* _predict: all(k in mods for k in with_mods) and
\* not any(k in mods for k in without_mods)
MaskAllowed(mods, with_mods, without_mods) ==
    /\ \A k \in with_mods : InTuple(k, mods)
    /\ ~\E k \in without_mods : InTuple(k, mods)

\* _predict: {k: (k in mods) for k in all_mods}
ModMask(mods) == [k \in AllMods |-> InTuple(k, mods)]

\* _predict: mod_masks, the masks of the allowed tuples in powerset order
RECURSIVE ModMasksFrom(_, _, _)
ModMasksFrom(i, with_mods, without_mods) ==
    IF i > Len(mod_powerset) THEN <<>>
    ELSE (IF MaskAllowed(mod_powerset[i], with_mods, without_mods)
          THEN <<ModMask(mod_powerset[i])>> ELSE <<>>)
         \o ModMasksFrom(i + 1, with_mods, without_mods)

mod_masks(with_mods, without_mods) == ModMasksFrom(1, with_mods, without_mods)

\* What model.predict(beatmap, **mod_mask) gives when it raises
Raises == [raised |-> TRUE, pp_mean |-> 0, accuracy_mean |-> 0]

\* What it gives when it returns: a prediction with its mean pp and its mean
\* accuracy, in percent
Prediction(pp, accuracy) == [raised |-> FALSE, pp_mean |-> pp, accuracy_mean |-> accuracy]

\* faulty variant: the model's exception leaves _predict
PredictUncaught(model, masks) ==
    IF \E i \in 1..Len(masks) : model[masks[i]].raised
    THEN [exc |-> TRUE, list |-> <<>>]
    ELSE [exc |-> FALSE, list |-> [i \in 1..Len(masks) |-> <<masks[i], model[masks[i]]>>]]

\* _predict: the list of (mod_mask, model.predict(beatmap, **mod_mask)) over
\* mod_masks; except Exception: return []. exc tells whether an exception
\* leaves _predict, list is what it returns.
PredictCaught(model, masks) ==
    IF \E i \in 1..Len(masks) : model[masks[i]].raised
    THEN [exc |-> FALSE, list |-> <<>>]
    ELSE [exc |-> FALSE, list |-> [i \in 1..Len(masks) |-> <<masks[i], model[masks[i]]>>]]

predict(model, with_mods, without_mods) ==
    PredictCaught(model, mod_masks(with_mods, without_mods))

AllMasks == [AllMods -> BOOLEAN]

\* The number of mods a mask turns on
RECURSIVE CountOn(_, _)
CountOn(mask, i) ==
    IF i > Len(Mods) THEN 0
    ELSE (IF mask[Mods[i]] THEN 1 ELSE 0) + CountOn(mask, i + 1)

\* A model and a beatmap: what model.predict gives for each mask. The models
\* tried here predict more pp the more mods are on, and raise on some masks.
ModelFor(raising) ==
    [m \in AllMasks |->
        IF m \in raising THEN Raises
        ELSE Prediction(100 + 10 * CountOn(m, 1), 95)]

PredictModels == {ModelFor({})} \cup {ModelFor({m}) : m \in AllMasks}

\* _predict is called, once
PredictCall ==
    /\ k_pc = "idle"
    /\ \E w \in SUBSET AllMods : k_with' = w
    /\ \E w \in SUBSET AllMods : k_without' = w
    /\ \E model \in PredictModels : k_model' = model
    /\ k_result' = <<>>
    /\ k_pc' = "called"
    /\ UNCHANGED <<gvars, qvars, cvars, svars, dvars, uvars, rvars>>

\* _predict returns
PredictReturn ==
    /\ k_pc = "called"
    /\ k_result' = predict(k_model, k_with, k_without).list
    /\ k_pc' = "returned"
    /\ UNCHANGED <<gvars, qvars, cvars, svars, dvars, uvars, rvars, k_with, k_without, k_model>>

----------------------------------------------------------------------------
(* handler.py: CombineHandler.recommend, one execution followed through *)

\* if n > 50
CandidateBudget == 50

\* The thread that runs recommend
Recommender == "r"

\* The arguments a user writes after !r, already cut at whitespace
ArgLists ==
    { <<>>,
      <<"-hr", "-dt", "-ht">>,
      <<"+hd", "-hr", "-dt", "-ht">>,
      <<"-hd", "-hr", "-dt", "-ht">>,
      <<"+hd", "+zz">> }

\* _parse_recommend_args: arg[0] and arg[1:]
ArgSign(arg) ==
    CASE arg \in {"+hd", "+zz"} -> "+"
      [] OTHER -> "-"

\* Mod.parse and Mod.unpack on arg[1:]: the mods named, or a ValueError
ArgMods(arg) ==
    CASE arg \in {"+hd", "-hd"} -> [invalid |-> FALSE, mods |-> {"hidden"}]
      [] arg = "-hr" -> [invalid |-> FALSE, mods |-> {"hard_rock"}]
      [] arg = "-dt" -> [invalid |-> FALSE, mods |-> {"double_time"}]
      [] arg = "-ht" -> [invalid |-> FALSE, mods |-> {"half_time"}]
      [] OTHER -> [invalid |-> TRUE, mods |-> {}]

\* _parse_recommend_args: the loop over args from argument i on
RECURSIVE ParseArgs(_, _, _, _)
ParseArgs(args, i, with_mods, without_mods) ==
    IF i > Len(args)
    THEN [failed |-> FALSE, with_mods |-> with_mods, without_mods |-> without_mods]
    ELSE IF ArgMods(args[i]).invalid
    THEN [failed |-> TRUE, with_mods |-> with_mods, without_mods |-> without_mods]
    ELSE IF ArgSign(args[i]) = "-"
    THEN ParseArgs(args, i + 1, with_mods, without_mods \cup ArgMods(args[i]).mods)
    ELSE ParseArgs(args, i + 1, with_mods \cup ArgMods(args[i]).mods, without_mods)

\* The window computed from the user's best scores
Windows == {[lower_bound |-> 100, upper_bound |-> 250, cached |-> TRUE]}

\* What model.predict can give for one beatmap and one mask: pp at and around
\* the ends of the window, accuracy at and below 95 percent
Predictions == {Prediction(pp, acc) : pp \in {99, 100, 250, 251}, acc \in {94, 95}}

\* The masks of no mod, of hidden alone, and of hidden with hard rock
SpecialMasks ==
    { [k \in AllMods |-> k \in on] : on \in {{}, {"hidden"}, {"hidden", "hard_rock"}} }

\* A model and a beatmap: one prediction for every mask but one, and any
\* prediction or an exception for that one
RecModels ==
    { [m \in AllMasks |-> IF m = special THEN at ELSE base] :
        special \in SpecialMasks,
        at \in Predictions \cup {Raises},
        base \in {Prediction(99, 95), Prediction(100, 95)} }

\* faulty variant: the ends of the window are not accepted
AcceptsInside(window, prediction) ==
    /\ window.lower_bound < prediction.pp_mean
    /\ prediction.pp_mean < window.upper_bound
    /\ prediction.accuracy_mean >= 95

\* recommend: lower_bound <= prediction.pp_mean <= upper_bound and
\* prediction.accuracy_mean >= 0.95
Accepts(window, prediction) ==
    /\ window.lower_bound <= prediction.pp_mean
    /\ prediction.pp_mean <= window.upper_bound
    /\ prediction.accuracy_mean >= 95

\* recommend: for mask, prediction in predictions, from pair i on: the index
\* of the pair it returns at, 0 when it falls through
RECURSIVE ScanFrom(_, _, _)
ScanFrom(predictions, i, window) ==
    IF i > Len(predictions) THEN 0
    ELSE IF Accepts(window, predictions[i][2]) THEN i
    ELSE ScanFrom(predictions, i + 1, window)

\* recommend: '' when no mod is on, else ' with ' and the sorted short names
ModSuffix(mask) ==
    IF ~\E k \in AllMods : mask[k] THEN <<>>
    ELSE <<" with ">>
         \o (IF mask["double_time"] THEN <<"DT">> ELSE <<>>)
         \o (IF mask["hidden"] THEN <<"HD">> ELSE <<>>)
         \o (IF mask["hard_rock"] THEN <<"HR">> ELSE <<>>)
         \o (IF mask["half_time"] THEN <<"HT">> ELSE <<>>)

\* format_result(beatmap, mods, prediction, show_link=True)
format_result(candidate, mods, prediction) ==
    <<"[https://osu.ppy.sh/b/", ToString(candidate), "] ">>
    \o mods \o (IF mods # <<>> THEN <<" ">> ELSE <<>>)
    \o <<"predicted high score: ", ToString(prediction.accuracy_mean),
         ToString(prediction.pp_mean)>>

\* faulty variant: get_model gives a model to a user who has none
GetModelNeverRaises(hasModel) == FALSE

\* _get_model: except FileNotFoundError: raise KeyError(user)
GetModelRaises(hasModel) == ~hasModel

NoModelMessage == <<"I haven't trained a model for you yet.">>

NotEnoughMessage == <<"not enough candidate beatmaps, try again later">>

\* faulty variant: the loop's end returns without a word
ExhaustedSilently == NoFailure

\* recommend: raise CommandFailure('not enough candidate beatmaps, ...')
Exhausted == [raised |-> TRUE, text |-> NotEnoughMessage]

\* Handler.__call__ has found recommend under the message's first token
RCall ==
    /\ d_pc \in {"idle", "done"}
    /\ r_pc \in {"idle", "done"}
    /\ d_calls < MaxCalls
    /\ d_calls' = d_calls + 1
    /\ \E args \in ArgLists :
          /\ d_data' = args
          /\ d_msg' = <<"!r", " ">> \o args
          /\ d_invoked' = <<[f |-> "recommend", data |-> args]>>
    /\ d_channel' = BotUser
    /\ d_cmd' = "recommend"
    /\ d_failure' = NoFailure
    /\ d_replies' = <<>>
    /\ d_exc' = "none"
    /\ d_pc' = "recommend"
    /\ \E hasModel \in BOOLEAN : r_has_model' = hasModel
    /\ r_pc' = "get_model"
    /\ r_window' = NoStats
    /\ r_with' = {}
    /\ r_without' = {}
    /\ r_n' = 0
    /\ r_taken' = 0
    /\ r_predicted' = 0
    /\ r_preds' = <<>>
    /\ r_raised' = FALSE
    /\ r_missed' = FALSE
    /\ r_reply' = NoReply
    /\ UNCHANGED <<gvars, qvars, cvars, svars, uvars, kvars, r_stats>>

\* recommend raises CommandFailure
RFail(failure) ==
    /\ d_failure' = failure
    /\ d_pc' = IF failure.raised THEN "except" ELSE "done"
    /\ r_pc' = "done"

\* recommend: model = self.get_model(user), its KeyError a CommandFailure
RGetModel ==
    /\ r_pc = "get_model"
    /\ IF GetModelRaises(r_has_model)
       THEN RFail([raised |-> TRUE, text |-> NoModelMessage])
       ELSE r_pc' = "stats" /\ UNCHANGED <<d_failure, d_pc>>
    /\ UNCHANGED <<gvars, qvars, cvars, svars, uvars, kvars, d_channel, d_msg, d_cmd, d_data,
                   d_invoked, d_replies, d_exc, d_calls, r_has_model, r_stats, r_window,
                   r_with, r_without, r_n, r_taken, r_predicted, r_preds, r_raised,
                   r_missed, r_reply>>

\* recommend: lower_bound, upper_bound = self._user_stats[user]; on a
\* KeyError (no entry, or an expired one) they are computed from the user's
\* best scores and the entry is written
RStats ==
    /\ r_pc = "stats"
    /\ \/ /\ r_stats.cached
          /\ r_window' = r_stats
          /\ UNCHANGED r_stats
       \/ \E w \in Windows : r_window' = w /\ r_stats' = w
    /\ r_pc' = "parse"
    /\ UNCHANGED <<gvars, qvars, cvars, svars, uvars, kvars, dvars, r_has_model, r_with,
                   r_without, r_n, r_taken, r_predicted, r_preds, r_raised, r_missed,
                   r_reply>>

\* recommend: with_mods, without_mods = self._parse_recommend_args(msg)
RParse ==
    /\ r_pc = "parse"
    /\ LET parsed == ParseArgs(d_data, 1, {}, {}) IN
       IF parsed.failed
       THEN /\ RFail([raised |-> TRUE,
                      text |-> <<"failed to parse mods from ">> \o Repr(d_data)])
            /\ UNCHANGED <<r_with, r_without>>
       ELSE /\ r_with' = parsed.with_mods
            /\ r_without' = parsed.without_mods
            /\ r_pc' = "next"
            /\ UNCHANGED <<d_failure, d_pc>>
    /\ UNCHANGED <<gvars, qvars, cvars, svars, uvars, kvars, d_channel, d_msg, d_cmd, d_data,
                   d_invoked, d_replies, d_exc, d_calls, r_has_model, r_stats, r_window,
                   r_n, r_taken, r_predicted, r_preds, r_raised, r_missed, r_reply>>

\* recommend: enumerate(self._candidates) asks for the next candidate;
\* LockedIterator.__next__ takes the lock
RNextAcquire ==
    /\ r_pc = "next"
    /\ CanEnterNext(Recommender)
    /\ supply_lock' = Recommender
    /\ r_pc' = "in_next"
    /\ UNCHANGED <<gvars, qvars, cvars, svars, kvars, dvars, pool, gen_finished, n_pc, n_got,
                   yielded, fetched, refills, n_calls, r_has_model, r_stats, r_window,
                   r_with, r_without, r_n, r_taken, r_predicted, r_preds, r_raised,
                   r_missed, r_reply>>

\* next(self._iterator) under the lock, seen from recommend: a candidate; or
\* IndexError from a refill without eligible beatmaps, which ends the
\* generator and leaves recommend; or StopIteration from the ended
\* generator, which ends the for loop. The lock is released in each case.
RNextResult ==
    /\ r_pc = "in_next"
    /\ supply_lock' = Free
    /\ IF gen_finished
       THEN /\ r_pc' = "exhausted"
            /\ UNCHANGED <<gen_finished, r_taken, d_exc, d_pc>>
       ELSE \/ /\ r_taken' = r_taken + 1
               /\ r_pc' = "check"
               /\ UNCHANGED <<gen_finished, d_exc, d_pc>>
            \/ /\ gen_finished' = TRUE
               /\ d_exc' = "IndexError"
               /\ d_pc' = "done"
               /\ r_pc' = "done"
               /\ UNCHANGED r_taken
    /\ UNCHANGED <<gvars, qvars, cvars, svars, kvars, d_channel, d_msg, d_cmd, d_data, d_invoked,
                   d_failure, d_replies, d_calls, pool, n_pc, n_got, yielded, fetched,
                   refills, n_calls, r_has_model, r_stats, r_window, r_with, r_without,
                   r_n, r_predicted, r_preds, r_raised, r_missed, r_reply>>

\* recommend: if n > 50: break
RCheck ==
    /\ r_pc = "check"
    /\ r_pc' = IF r_n > CandidateBudget THEN "exhausted" ELSE "predict"
    /\ UNCHANGED <<gvars, qvars, cvars, svars, uvars, kvars, dvars, r_has_model, r_stats,
                   r_window, r_with, r_without, r_n, r_taken, r_predicted, r_preds,
                   r_raised, r_missed, r_reply>>

\* recommend: predictions = self._predict(...)
RPredict ==
    /\ r_pc = "predict"
    /\ r_predicted' = r_predicted + 1
    /\ LET masks == mod_masks(r_with, r_without) IN
       \E model \in RecModels :
          LET result == PredictCaught(model, masks)
          IN  /\ r_raised' = (r_raised \/ \E i \in 1..Len(masks) : model[masks[i]].raised)
              /\ IF result.exc
                 THEN /\ d_exc' = "model error"
                      /\ d_pc' = "done"
                      /\ r_pc' = "done"
                      /\ UNCHANGED r_preds
                 ELSE /\ r_preds' = result.list
                      /\ r_pc' = "scan"
                      /\ UNCHANGED <<d_exc, d_pc>>
    /\ UNCHANGED <<gvars, qvars, cvars, svars, uvars, kvars, d_channel, d_msg, d_cmd, d_data,
                   d_invoked, d_failure, d_replies, d_calls, r_has_model, r_stats,
                   r_window, r_with, r_without, r_n, r_taken, r_missed, r_reply>>

\* recommend: the loop over predictions; at the first one accepted it
\* returns self.send(...), else the for loop over the candidates goes on
\* (predictions is bound anew before it is read again)
RScan ==
    /\ r_pc = "scan"
    /\ LET i == ScanFrom(r_preds, 1, r_window) IN
       IF i > 0
       THEN /\ r_reply' = [sent |-> TRUE, candidate |-> r_taken, index |-> i]
            /\ d_replies' = Append(d_replies,
                                   format_result(r_taken, ModSuffix(r_preds[i][1]),
                                                 r_preds[i][2]))
            /\ d_pc' = "done"
            /\ r_pc' = "done"
            /\ UNCHANGED <<r_n, r_missed, r_preds>>
       ELSE /\ r_n' = r_n + 1
            /\ r_pc' = "next"
            /\ r_missed' = (r_missed \/ \E j \in 1..Len(r_preds) :
                                /\ r_preds[j][2].pp_mean \in
                                       r_window.lower_bound..r_window.upper_bound
                                /\ r_preds[j][2].accuracy_mean >= 95)
            /\ r_preds' = <<>>
            /\ UNCHANGED <<r_reply, d_replies, d_pc>>
    /\ UNCHANGED <<gvars, qvars, cvars, svars, uvars, kvars, d_channel, d_msg, d_cmd, d_data,
                   d_invoked, d_failure, d_exc, d_calls, r_has_model, r_stats, r_window,
                   r_with, r_without, r_taken, r_predicted, r_raised>>

\* recommend: the for loop has ended, by the break or by StopIteration
RExhausted ==
    /\ r_pc = "exhausted"
    /\ RFail(Exhausted)
    /\ UNCHANGED <<gvars, qvars, cvars, svars, uvars, kvars, d_channel, d_msg, d_cmd, d_data,
                   d_invoked, d_replies, d_exc, d_calls, r_has_model, r_stats, r_window,
                   r_with, r_without, r_n, r_taken, r_predicted, r_preds, r_raised,
                   r_missed, r_reply>>

recommend ==
    \/ RCall
    \/ RGetModel
    \/ RStats
    \/ RParse
    \/ RNextAcquire
    \/ RNextResult
    \/ RCheck
    \/ RPredict
    \/ RScan
    \/ RExhausted

----------------------------------------------------------------------------
(* expiring_cache.py: ExpiringCache *)

\* everything beside the cache
xrest == <<qvars, cvars, svars, dvars, uvars, kvars, rvars, mvars, tvars, bvars, ivars>>

\* faulty variant: an entry is still returned at the time it expires
ExpiredAfter(t, expires) == t > expires

\* _Entry.__call__: if datetime.datetime.now() >= self._expires: raise _Expired()
Expired(t, expires) == t >= expires

\* _Entry.__init__(value, expires)
Entry(value, expires) == [present |-> TRUE, value |-> value, expires |-> expires]

\* ExpiringCache.__getitem__ at time t: self._entries[key] raises KeyError
\* when the key was never set, the entry raises _Expired, turned into
\* KeyError, when it has expired, and returns its value otherwise
CacheLookup(entries, key, t) ==
    IF ~entries[key].present
    THEN [key |-> key, hit |-> FALSE, value |-> 0, at |-> t]
    ELSE IF Expired(t, entries[key].expires)
    THEN [key |-> key, hit |-> FALSE, value |-> 0, at |-> t]
    ELSE [key |-> key, hit |-> TRUE, value |-> entries[key].value, at |-> t]

\* cache[key] = (value, expires)
CacheSet ==
    /\ \E key \in CacheKeys, value \in CacheValues, expires \in 0..MaxClock :
           /\ x_entries' = [x_entries EXCEPT ![key] = Entry(value, expires)]
           /\ x_last' = [x_last EXCEPT ![key] =
                            [present |-> TRUE, value |-> value, expires |-> expires]]
    /\ UNCHANGED <<xrest, x_now, x_got>>

\* cache[key]
CacheGet ==
    /\ \E key \in CacheKeys : x_got' = CacheLookup(x_entries, key, x_now)
    /\ UNCHANGED <<xrest, x_entries, x_now, x_last>>

\* time passes
CacheTick ==
    /\ x_now < MaxClock
    /\ x_now' = x_now + 1
    /\ UNCHANGED <<xrest, x_entries, x_got, x_last>>

NextCache == CacheSet \/ CacheGet \/ CacheTick

SpecCache == Init /\ [][NextCache]_vars

-----------------------------------------------------------------------------
(* handler.py: get_model, functools.lru_cache over _get_model *)

\* everything beside the model cache
mrest == <<qvars, cvars, svars, dvars, uvars, kvars, rvars, xvars, tvars, bvars, ivars>>

\* The place of the user's entry in the cache, 0 when it has none
RECURSIVE CacheIndex(_, _, _)
CacheIndex(cache, user, i) ==
    IF i > Len(cache) THEN 0
    ELSE IF cache[i].user = user THEN i
    ELSE CacheIndex(cache, user, i + 1)

\* faulty variant: the wrapper never finds an entry
CachedNever(cache, user) == 0

\* lru_cache: the lookup of the key made of the call's arguments
Cached(cache, user) == CacheIndex(cache, user, 1)

\* The cache without its entry i
Without(cache, i) == SubSeq(cache, 1, i - 1) \o SubSeq(cache, i + 1, Len(cache))

\* faulty variant: a hit leaves the order as it is
TouchNothing(cache, i) == cache

\* lru_cache, on a hit: the entry becomes the most recently used
Touch(cache, i) == Append(Without(cache, i), cache[i])

\* lru_cache, after a successful call: the result is added as the most
\* recently used entry, the least recently used one leaving a full cache;
\* nothing is added when another call has cached the key meanwhile
Insert(cache, entry) ==
    IF CacheIndex(cache, entry.user, 1) > 0 THEN cache
    ELSE IF Len(cache) >= ModelCacheSize THEN Append(Tail(cache), entry)
    ELSE Append(cache, entry)

\* self.get_model(user): the wrapper looks the user up; a hit returns the
\* cached model, a miss goes on to _get_model
GetModelCall(t) ==
    /\ m_pc[t] = "idle"
    /\ m_calls < MaxGets
    /\ m_calls' = m_calls + 1
    /\ \E user \in ModelUsers :
          LET i == Cached(m_cache, user) IN
          /\ m_user' = [m_user EXCEPT ![t] = user]
          /\ IF i > 0
             THEN /\ m_cache' = Touch(m_cache, i)
                  /\ m_res' = [m_res EXCEPT ![t] = [kind |-> "hit", inst |-> m_cache[i].inst]]
                  /\ m_clock' = m_clock + 1
                  /\ m_time' = [m_time EXCEPT ![user] = m_clock']
                  /\ UNCHANGED m_pc
             ELSE /\ m_pc' = [m_pc EXCEPT ![t] = "load"]
                  /\ m_res' = [m_res EXCEPT ![t] = NoModel]
                  /\ UNCHANGED <<m_cache, m_clock, m_time>>
    /\ UNCHANGED <<mrest, m_stored, m_loads, m_evicted>>

\* _get_model: ErrorModel.load_path(self.model_cache_dir / user);
\* except FileNotFoundError: raise KeyError(user), which the wrapper lets
\* through without caching anything
GetModelLoad(t) ==
    /\ m_pc[t] = "load"
    /\ IF m_user[t] \in m_stored
       THEN /\ m_loads' = m_loads + 1
            /\ m_res' = [m_res EXCEPT ![t] = [kind |-> "loading", inst |-> m_loads']]
            /\ m_pc' = [m_pc EXCEPT ![t] = "insert"]
       ELSE /\ m_res' = [m_res EXCEPT ![t] = [kind |-> "KeyError", inst |-> 0]]
            /\ m_pc' = [m_pc EXCEPT ![t] = "idle"]
            /\ UNCHANGED m_loads
    /\ UNCHANGED <<mrest, m_cache, m_stored, m_user, m_calls, m_clock, m_time, m_evicted>>

\* the wrapper caches what _get_model returned and returns it
GetModelInsert(t) ==
    /\ m_pc[t] = "insert"
    /\ LET entry == [user |-> m_user[t], inst |-> m_res[t].inst]
           added == CacheIndex(m_cache, m_user[t], 1) = 0
       IN  /\ m_cache' = Insert(m_cache, entry)
           /\ m_evicted' = IF added /\ Len(m_cache) >= ModelCacheSize
                            THEN Append(m_evicted, Head(m_cache).user)
                            ELSE m_evicted
           /\ m_clock' = IF added THEN m_clock + 1 ELSE m_clock
           /\ m_time' = IF added THEN [m_time EXCEPT ![m_user[t]] = m_clock'] ELSE m_time
    /\ m_res' = [m_res EXCEPT ![t] = [kind |-> "loaded", inst |-> m_res[t].inst]]
    /\ m_pc' = [m_pc EXCEPT ![t] = "idle"]
    /\ UNCHANGED <<mrest, m_stored, m_user, m_loads, m_calls>>

\* a training has succeeded: the user's model is written under model_cache_dir
PersistModel ==
    /\ \E user \in ModelUsers \ m_stored : m_stored' = m_stored \cup {user}
    /\ UNCHANGED <<mrest, m_cache, m_pc, m_user, m_res, m_loads, m_calls, m_clock, m_time,
                   m_evicted>>

get_model(t) == GetModelCall(t) \/ GetModelLoad(t) \/ GetModelInsert(t)

NextModels == (\E t \in ModelCallers : get_model(t)) \/ PersistModel

SpecModels == Init /\ [][NextModels]_vars

-----------------------------------------------------------------------------
(* token.py: gen_token, and server/views.py: read_token *)

\* everything beside the tokens
trest == <<qvars, cvars, svars, dvars, uvars, kvars, rvars, xvars, mvars, bvars, ivars>>

\* The users a token is made for, one of them with a name outside ASCII
TokenUsers == {"ann", "é"}

\* The server's token_secret, and another one
TokenSecret == "token_secret"

OtherSecret == "other secret"

\* Fernet.decrypt: the plaintext when the token was made with this secret,
\* InvalidToken otherwise
Decrypt(secret, token) ==
    IF token.secret = secret
    THEN [ok |-> TRUE, text |-> token.text]
    ELSE [ok |-> FALSE, text |-> [json |-> FALSE, pairs |-> <<>>]]

\* json.dumps writes a character outside ASCII as an escape
JsonEscape(str) == IF str = "é" THEN "\\u00e9" ELSE str

\* json.loads reads the escape back
JsonUnescape(str) == IF str = "\\u00e9" THEN "é" ELSE str

\* json.dumps of a dict of strings, given as its items
Dumps(items) ==
    [json |-> TRUE,
     pairs |-> [i \in 1..Len(items) |-> <<items[i][1], JsonEscape(items[i][2])>>]]

\* token.keys() of the dict json.loads gives
Keys(text) == {text.pairs[i][1] : i \in 1..Len(text.pairs)}

\* token[key] of the dict json.loads gives: the last value written for the key
Get(text, key) ==
    LET at == {i \in 1..Len(text.pairs) : text.pairs[i][1] = key}
        last == CHOOSE i \in at : \A j \in at : j <= i
    IN  JsonUnescape(text.pairs[last][2])

\* The times that can be written into a token
Stamps == 0..(MaxClock + TokenLife)

\* Timestamp.isoformat()
IsoFormat(t) == ToString(t)

\* Whether pd.Timestamp(text) parses the text
IsStamp(text) == \E t \in Stamps : IsoFormat(t) = text

\* pd.Timestamp(text)
Timestamp(text) == CHOOSE t \in Stamps : IsoFormat(t) = text

\* token.py gen_token(token_secret, user, expires=expires) called at time t
IssueToken(secret, user, t, expires) ==
    Encrypt(secret, Dumps(<<<<"issued", IsoFormat(t)>>,
                            <<"expires", IsoFormat(expires)>>,
                            <<"user", user>>>>))

\* faulty variant: a token is good for ever
TokenExpiredNever(t, expires) == FALSE

\* read_token: pd.Timestamp.now(tz='utc') > pd.Timestamp(token['expires'])
TokenExpired(t, expires) == t > expires

\* read_token(enc_token) called at time t: the user of the token it returns,
\* or the exception it raises
read_token(token, t) ==
    LET d == Decrypt(TokenSecret, token) IN
    IF ~d.ok \/ ~d.text.json
    THEN [kind |-> "ValueError", user |-> "", at |-> t]
    ELSE IF Keys(d.text) # {"issued", "expires", "user"}
    THEN [kind |-> "ValueError", user |-> "", at |-> t]
    ELSE IF ~IsStamp(Get(d.text, "expires"))
    THEN [kind |-> "ValueError", user |-> "", at |-> t]
    ELSE IF TokenExpired(t, Timestamp(Get(d.text, "expires")))
    THEN [kind |-> "ExpiredToken", user |-> "", at |-> t]
    ELSE [kind |-> "token", user |-> Get(d.text, "user"), at |-> t]

\* What else can be presented as a token: bytes that are no Fernet token,
\* a token made with another secret, and plaintexts under the server's
\* secret that are no JSON, lack a key, have one more, or whose expiry is
\* no time
ForgedTokens ==
    { Encrypt("none", [json |-> FALSE, pairs |-> <<>>]),
      IssueToken(OtherSecret, "ann", 0, MaxClock),
      Encrypt(TokenSecret, [json |-> FALSE, pairs |-> <<>>]),
      Encrypt(TokenSecret, Dumps(<<<<"expires", IsoFormat(MaxClock)>>, <<"user", "ann">>>>)),
      Encrypt(TokenSecret, Dumps(<<<<"issued", IsoFormat(0)>>,
                                   <<"expires", IsoFormat(MaxClock)>>,
                                   <<"user", "ann">>, <<"admin", "yes">>>>)),
      Encrypt(TokenSecret, Dumps(<<<<"issued", IsoFormat(0)>>, <<"expires", "never">>,
                                   <<"user", "ann">>>>)) }

\* !gen-token: gen_token(self.token_secret, user), good for 12 hours; or
\* gen_token with an expiry of the caller's choice
TokenIssue ==
    /\ \E user \in TokenUsers, expires \in {t_now + TokenLife} \cup (0..MaxClock) :
          /\ t_token' = IssueToken(TokenSecret, user, t_now, expires)
          /\ t_issue' = [issued |-> TRUE, user |-> user, expires |-> expires]
    /\ UNCHANGED <<trest, t_now, t_result>>

\* somebody presents a token the bot never issued
TokenForge ==
    /\ \E token \in ForgedTokens : t_token' = token
    /\ t_issue' = NoIssue
    /\ UNCHANGED <<trest, t_now, t_result>>

\* views.py train: token = read_token(enc_token)
TokenRead ==
    /\ t_result' = read_token(t_token, t_now)
    /\ UNCHANGED <<trest, t_now, t_token, t_issue>>

\* time passes
TokenTick ==
    /\ t_now < MaxClock
    /\ t_now' = t_now + 1
    /\ UNCHANGED <<trest, t_token, t_issue, t_result>>

NextToken == TokenIssue \/ TokenForge \/ TokenRead \/ TokenTick

SpecToken == Init /\ [][NextToken]_vars

-----------------------------------------------------------------------------
(* irc.py: Client._listen, its buffer followed byte by byte *)

\* everything beside the receive buffer
brest == <<qvars, cvars, svars, dvars, uvars, kvars, rvars, xvars, mvars, tvars, ivars>>

\* The bytes the server sends: two letters and the line feed
Bytes == {"a", "b", "\n"}

\* What one recv(4096) returns: some bytes, or none when the server has
\* closed the connection
Chunks == SeqsUpTo(Bytes, MaxChunk)

\* The first index from i on at which the buffer holds a line feed, 0 when
\* there is none
RECURSIVE FindNewline(_, _)
FindNewline(buffer, i) ==
    IF i > Len(buffer) THEN 0
    ELSE IF buffer[i] = "\n" THEN i
    ELSE FindNewline(buffer, i + 1)

\* buffer.split(b'\n'): the pieces between the line feeds, one more than
\* there are line feeds
RECURSIVE SplitNewline(_)
SplitNewline(buffer) ==
    LET i == FindNewline(buffer, 1) IN
    IF i = 0 THEN <<buffer>>
    ELSE <<SubSeq(buffer, 1, i - 1)>> \o SplitNewline(SubSeq(buffer, i + 1, Len(buffer)))

\* faulty variant: what follows the last line feed is thrown away
CarryNothing(pieces) == <<>>

\* buffer = lines.pop(): the last piece is kept for the next read
Carry(pieces) == pieces[Len(pieces)]

\* buffer += recv(4096); lines = buffer.split(b'\n'); buffer = lines.pop()
BRecv ==
    /\ b_pc = "recv"
    /\ \E chunk \in Chunks :
          /\ Len(b_stream) + Len(chunk) <= MaxStream
          /\ LET pieces == SplitNewline(b_buffer \o chunk) IN
             /\ b_buffer' = Carry(pieces)
             /\ b_lines' = SubSeq(pieces, 1, Len(pieces) - 1)
          /\ b_stream' = b_stream \o chunk
          /\ b_cuts' = b_cuts \cup {Len(b_stream')}
    /\ b_pc' = "for"
    /\ UNCHANGED <<brest, b_handled>>

\* for line in lines: the line is taken up; parts[1] raises IndexError on a
\* line of fewer than two fields, here the empty one, and nothing catches it
BHandle ==
    /\ b_pc = "for"
    /\ b_lines # <<>>
    /\ b_handled' = Append(b_handled, Head(b_lines))
    /\ b_lines' = Tail(b_lines)
    /\ b_pc' = IF Head(b_lines) = <<>> THEN "raised" ELSE "for"
    /\ UNCHANGED <<brest, b_buffer, b_stream, b_cuts>>

\* the for loop is over: while self._running
BLoop ==
    /\ b_pc = "for"
    /\ b_lines = <<>>
    /\ b_pc' = "recv"
    /\ UNCHANGED <<brest, b_buffer, b_lines, b_handled, b_stream, b_cuts>>

NextBuffer == BRecv \/ BHandle \/ BLoop

SpecBuffer == Init /\ [][NextBuffer]_vars

-----------------------------------------------------------------------------
(* handler.py: _periodic_task.run, one task and its timers *)

\* everything beside the timers
irest == <<qvars, cvars, svars, dvars, uvars, kvars, rvars, xvars, mvars, tvars, bvars>>

\* faulty variant: the period is counted from the start of the execution
TimerDueFixedRate(startedAt, returnedAt) == startedAt + TimerInterval

\* start(), called by wrapped_function after underlying_function has
\* returned: threading.Timer(self._time, wrapped_function, ...).start() waits
\* self._time seconds from now
TimerDue(startedAt, returnedAt) == returnedAt + TimerInterval

\* a timer's thread has waited its interval and calls wrapped_function
TimerFires ==
    /\ \E k \in 1..Len(i_timers) :
          /\ i_timers[k] <= i_clock
          /\ i_timers' = SubSeq(i_timers, 1, k - 1) \o SubSeq(i_timers, k + 1, Len(i_timers))
    /\ i_running' = i_running + 1
    /\ i_started' = i_clock
    /\ UNCHANGED <<irest, i_clock, i_returned>>

\* wrapped_function: underlying_function(*args, **kwargs) has returned; start()
TimerReturns ==
    /\ i_running > 0
    /\ i_running' = i_running - 1
    /\ i_returned' = i_clock
    /\ i_timers' = Append(i_timers, TimerDue(i_started, i_clock))
    /\ UNCHANGED <<irest, i_clock, i_started>>

\* wrapped_function: underlying_function raises; start() is not reached and
\* the timer's thread ends
TimerRaises ==
    /\ i_running > 0
    /\ i_running' = i_running - 1
    /\ i_returned' = i_clock
    /\ UNCHANGED <<irest, i_clock, i_timers, i_started>>

\* time passes
TimerTick ==
    /\ i_clock < MaxTimerClock
    /\ i_clock' = i_clock + 1
    /\ UNCHANGED <<irest, i_timers, i_running, i_started, i_returned>>

NextTimer == TimerFires \/ TimerReturns \/ TimerRaises \/ TimerTick

SpecTimer == Init /\ [][NextTimer]_vars

-----------------------------------------------------------------------------
(* The specifications *)

\* the uploader, one training worker and the bot's periodic task
Next ==
    \/ Tick
    \/ enqueue_job(MaxJobs)
    \/ run_train_queue("w1")
    \/ report_training_status("p1")

Spec == Init /\ [][Next]_vars

\* two training workers on the same queue
NextWorkers ==
    \/ Tick
    \/ enqueue_job(MaxParJobs)
    \/ \E w \in Workers : run_train_queue(w)

SpecWorkers == Init /\ [][NextWorkers]_vars

\* Two workers and the poller of the bot on the same database
NextShared ==
    \/ enqueue_job(MaxParJobs)
    \/ \E w \in Workers : run_train_queue(w)
    \/ report_training_status("p1")

SpecShared == Init /\ [][NextShared]_vars

\* two bots polling the same queue
NextPollers ==
    \/ Tick
    \/ enqueue_job(MaxParJobs)
    \/ run_train_queue("w1")
    \/ \E p \in Pollers : report_training_status(p)

SpecPollers == Init /\ [][NextPollers]_vars

\* one training worker that can be killed and started again
NextCrash ==
    \/ Tick
    \/ enqueue_job(MaxJobs)
    \/ run_train_queue("w1")
    \/ WorkerCrash("w1")
    \/ WorkerRestart("w1")

SpecCrash == Init /\ [][NextCrash]_vars

\* the IRC client: the receive thread, the handler threads it spawns, the
\* periodic task's thread and the main thread's stop()
NextConn ==
    \/ Stop
    \/ listen
    \/ TimerFire
    \/ \E t \in Threads : THandle(t) \/ THandleRaise(t) \/ send(t)

SpecConn == Init /\ [][NextConn]_vars

\* the IRC client's life cycle: the main thread calls stop(), join() and
\* close() in any order while the receive thread and handler threads run
NextLife ==
    \/ Stop
    \/ Close
    \/ Join
    \/ listen
    \/ \E t \in HandlerThreads : THandle(t) \/ THandleRaise(t) \/ send(t)

SpecLife == Init /\ [][NextLife]_vars

\* the receive thread and the handler threads. Every thread that can take a
\* step gets to take it (threads are scheduled by the operating system, and
\* socket.send inside the with block returns), but nothing makes a message
\* handler finish: it may wait for its model or candidates for ever.
NextLive ==
    \/ Stop
    \/ listen
    \/ \E t \in HandlerThreads : THandle(t) \/ THandleRaise(t) \/ send(t)

SpecLive ==
    /\ Init
    /\ [][NextLive]_vars
    /\ WF_vars(listen)
    /\ \A t \in HandlerThreads : WF_vars(send(t))

\* calls of Client.send, before and after the main thread's stop()
NextSend ==
    \/ Stop
    \/ client_send

SpecSend == Init /\ [][NextSend]_vars

\* handler threads taking candidates out of the shared supply
NextSupply == \E c \in SupplyCallers : next_candidate(c)

SpecSupply == Init /\ [][NextSupply]_vars

\* the same, where every caller that can take a step gets to take it: the
\* threads are scheduled, and the osu client's request returns
SpecSupplyFair ==
    /\ Init
    /\ [][NextSupply]_vars
    /\ \A c \in SupplyCallers : WF_vars(next_candidate(c))

\* calls of _predict with every pair of pinned mod sets
NextPredict == PredictCall \/ PredictReturn

SpecPredict == Init /\ [][NextPredict]_vars

\* !r messages: recommend, and the reply Handler.__call__ sends when it fails
NextRecommend == recommend \/ DReportFailure

SpecRecommend == Init /\ [][NextRecommend]_vars

\* messages handed to the message handler
NextDispatch == dispatch

SpecDispatch == Init /\ [][NextDispatch]_vars

----------------------------------------------------------------------------
(* Properties of the training queue *)

\* C1: with two or more worker loops on the same queue, no job is run by more
\* than one worker: no rowid is marked running (after being returned by
\* get_job) twice.
C1_NoDoubleClaim ==
    \A i, j \in DOMAIN startlog :
        i # j => startlog[i].rowid # startlog[j].rowid

StatusStep(a, b) ==
    \/ a = b
    \/ (a = not_started /\ b = running)
    \/ (a = running /\ b \in {failed, success})

\* C2: every job's status only moves along not_started -> running ->
\* (failed | success): never backwards, never skipping running, never leaving
\* failed or success; and no row disappears.
C2_StatusMonotonic ==
    [][\A r \in DOMAIN queue :
          r \in DOMAIN queue' /\ StatusStep(queue[r].status, queue'[r].status)]_vars

C2_Witness ==
    \E r, s, t \in DOMAIN queue :
        /\ queue[r].status = success
        /\ queue[s].status = failed
        /\ queue[t].status = running

\* C3: get_completed_jobs returns each completed job at most once over all
\* calls of all pollers.
C3_ReturnedOnce ==
    \A i, j \in DOMAIN returned : i # j => returned[i] # returned[j]

C5_GetJob ==
    [][\A w \in Workers :
          (wpc[w] = "get_job" /\ wpc'[w] # "get_job") =>
              /\ queue' = queue
              /\ txn' = txn
              /\ (wpc'[w] = "sleep") <=>
                     (\A r \in DOMAIN queue : queue[r].status # not_started)
              /\ (wpc'[w] # "sleep") =>
                     /\ wpc'[w] = "upd_running"
                     /\ wjob'[w].rowid \in DOMAIN queue
                     /\ queue[wjob'[w].rowid].status = not_started
                     /\ wjob'[w].user = queue[wjob'[w].rowid].user
                     /\ wjob'[w].age = queue[wjob'[w].rowid].age
                     /\ \A s \in DOMAIN queue :
                            queue[s].status = not_started =>
                                queue[wjob'[w].rowid].insert_time <= queue[s].insert_time]_vars

C5_Witness ==
    /\ wpc["w1"] = "upd_running"
    /\ wjob["w1"].rowid = 2
    /\ Len(queue) = 3
    /\ queue[1].status = failed
    /\ queue[2].status = not_started
    /\ queue[3].status = not_started
    /\ queue[2].insert_time < queue[3].insert_time

\* C6: the worker loop never terminates, and every job it has finished is
\* failed if the training subprocess exited non-zero or running it raised,
\* and success otherwise.
C6_FailureClassified ==
    \A w \in Workers :
        /\ wpc[w] \in {"get_job", "sleep", "upd_running", "commit_running",
                       "train", "upd_final", "commit_final"}
        /\ wpc[w] \in {"upd_final", "commit_final"} =>
               wfailed[w] = (wout[w] # "exit0")
        /\ (wpc[w] \in {"get_job", "sleep"} /\ wjob[w].rowid # 0) =>
               queue[wjob[w].rowid].status =
                   (IF wout[w] = "exit0" THEN success ELSE failed)

C6_Witness ==
    /\ wout["w1"] = "raise"
    /\ wpc["w1"] = "train"
    /\ wjob["w1"].rowid = 2
    /\ queue[1].status = failed

MessagesFor(r) == {i \in DOMAIN sent : sent[i].rowid = r}

PendingSend(r) ==
    \E p \in Pollers :
        ppc[p] = "send" /\ \E i \in DOMAIN pout[p] : pout[p][i].rowid = r

\* C7: every job that reaches a terminal status gets exactly one completion
\* message: never two, and never zero once the reporting pass that flagged it
\* has ended.
C7_ExactlyOneMessage ==
    \A r \in DOMAIN queue :
        /\ Cardinality(MessagesFor(r)) <= 1
        /\ (queue[r].reported /\ ~PendingSend(r)) => Cardinality(MessagesFor(r)) = 1

\* C8: a job left running is never returned by get_job again and never marked
\* running a second time, whatever the worker's crashes and restarts.
C8_RunningNeverRetried ==
    /\ \A i, j \in DOMAIN startlog :
           i # j => startlog[i].rowid # startlog[j].rowid
    /\ \A w \in Workers :
           wpc[w] \in {"upd_running", "commit_running"} =>
               queue[wjob[w].rowid].status = not_started

C8_Witness ==
    /\ crashes >= 1
    /\ wpc["w1"] = "train"
    /\ \E r \in DOMAIN queue :
           /\ r # wjob["w1"].rowid
           /\ queue[r].status = running
           /\ \E i \in DOMAIN startlog : startlog[i].rowid = r

\* C9: reported is one-way, and a job with reported = true has had its
\* completion message sent to its user through the connection.
C9_ReportedAfterSent ==
    [](\A r \in DOMAIN queue :
          queue[r].reported =>
              \E i \in DOMAIN sent :
                  sent[i].rowid = r /\ sent[i].user = queue[r].user)
    /\ [][\A r \in DOMAIN queue :
             queue[r].reported => (r \in DOMAIN queue' /\ queue'[r].reported)]_vars

----------------------------------------------------------------------------
(* Properties of the connection *)

InWrite(t) ==
    IF t = Listener THEN listen_pc \in {"pong_w1", "pong_w2"}
    ELSE task_pc[t] \in {"send_w1", "send_w2"}

\* C10: after the handshake every socket write happens under the single write
\* lock: a thread inside a write holds the lock, no two threads are inside a
\* write at once, and the socket receives whole messages one after the other.
C10_WritesUnderLock ==
    /\ \A t \in Threads \cup {Listener} : InWrite(t) => write_lock = t
    /\ \A t, u \in Threads \cup {Listener} : (InWrite(t) /\ InWrite(u)) => t = u
    /\ \A i \in DOMAIN wire :
          IF i % 2 = 1 THEN wire[i].part = 1
          ELSE wire[i].part = 2 /\ wire[i].by = wire[i - 1].by

C10_Witness ==
    /\ task_pc["h1"] = "send_w2"
    /\ task_pc[TimerThread] = "send"
    /\ listen_pc = "pong"
    /\ \E i \in DOMAIN wire : wire[i].by = TimerThread /\ wire[i].part = 2

\* A call of Client.send has returned or raised
SendDone == s_pc = "done"

\* C11: Client.send(user, text) fails and writes nothing to the socket
\* whenever text contains a line terminator (carriage return or line feed);
\* for every other text it writes exactly one PRIVMSG line and raises nothing.
C11_SendOneLine ==
    SendDone =>
        IF \E c \in Terminators : Contains(s_text, c)
        THEN s_exc # "none" /\ s_wrote = <<>>
        ELSE s_exc = "none" /\ s_wrote = Encode(s_text) /\ NLines(s_wrote) = 1

\* C12 as stated: after stop() has returned, every later Client.send fails
\* with the closed-client error and writes nothing.
C12_SendRefusedAfterStop ==
    (SendDone /\ ~s_was_running) => (s_exc = "closed client" /\ s_wrote = <<>>)

\* C12, amended: stop() never blocks, and a Client.send called after stop()
\* has returned is not refused: as before stop(), it raises ValueError exactly
\* for a message holding '\n', UnicodeEncodeError exactly for a message
\* without '\n' that is not ASCII, and hands its PRIVMSG bytes to the socket
\* in every other case.
C12_SendAfterStop ==
    /\ client_running => ENABLED Stop
    /\ (SendDone /\ ~s_was_running) =>
          /\ s_exc = (IF HasNewline(s_text) THEN "ValueError"
                      ELSE IF ~IsAscii(s_text) THEN "UnicodeEncodeError"
                      ELSE "none")
          /\ s_wrote = (IF s_exc = "none" THEN Encode(s_text) ELSE <<>>)

\* a message sent after stop() reached the socket
C12_Witness ==
    /\ SendDone
    /\ ~s_was_running
    /\ s_exc = "none"
    /\ s_wrote = Encode(<<"a">>)

\* C13: close() on a running connection fails with an error and leaves the
\* socket open; the socket is only ever released in a state where the
\* connection has been stopped.
C13_CloseNeedsStopped ==
    /\ [](~sock_open => ~client_running)
    /\ [][(client_running /\ <<close_exc, sock_open>>' # <<close_exc, sock_open>>)
              => (close_exc' = "ValueError" /\ sock_open')]_vars

\* close() was refused on the running client, whose socket is still open
C13_Witness ==
    /\ client_running
    /\ close_exc = "ValueError"
    /\ sock_open

\* C14: the socket is released only after the receive loop has fully exited:
\* join() returns only once the receive loop has terminated, and in no
\* reachable state has close() released the socket while the receive loop is
\* still running, close() right after stop() without join() included.
C14_ClosedAfterLoopExit ==
    /\ joined => ListenTerminated
    /\ ~sock_open => ListenTerminated

\* C15: an exception raised by the message handler inside a per-message task
\* is caught in that task and never terminates the receive loop: the step in
\* which the handler raises leaves the receive thread where it was, and the
\* receive thread only ever ends by an exception of its own.
C15_HandlerFailureContained ==
    /\ [][\A t \in HandlerThreads :
             (task_pc[t] = "handle" /\ task_pc'[t] = "logged")
                 => (listen_pc' = listen_pc /\ listen_exc' = listen_exc)]_vars
    /\ [](listen_pc = "raised" => listen_exc # "none")

\* after h1's handler raised, the receive loop spawned h2 and answers a PING
C15_Witness ==
    /\ task_pc["h1"] = "logged"
    /\ task_pc["h2"] = "handle"
    /\ listen_pc = "pong_unlock"

\* C16: a malformed inbound line (a single token, a PRIVMSG with fewer than
\* four fields, a sender prefix without '!') is dropped without terminating
\* the receive loop, which goes on to later lines.
C16_MalformedLineDropped ==
    listen_pc = "raised" => listen_exc \notin {"IndexError", "ValueError"}

\* C17: keep-alive is answered without waiting for any command handler to
\* finish: whatever handler tasks are still executing, and even if they never
\* finish, a PING the receive loop has taken up gets its PONG written, and a
\* message from another user gets its own task spawned at once.
C17_PongNotBehindHandlers ==
    /\ (listen_pc = "pong_lock") ~> (listen_pc = "pong_unlock")
    /\ []((/\ listen_pc = "privmsg"
           /\ client_running
           /\ \E t \in HandlerThreads : task_pc[t] = "unborn") => ENABLED LSpawn)

\* the PONG is written while both handler tasks are still executing
C17_Witness ==
    /\ task_pc["h1"] = "handle"
    /\ task_pc["h2"] = "handle"
    /\ listen_pc = "pong_unlock"

\* The message handler has returned or raised
DispatchDone == d_pc = "done"

\* The first index of the message holding one of the separators, or one past
\* its end
TokenEnd(msg, seps) ==
    IF \E i \in 1..Len(msg) : msg[i] \in seps
    THEN CHOOSE i \in 1..Len(msg) :
            msg[i] \in seps /\ \A j \in 1..(i - 1) : msg[j] \notin seps
    ELSE Len(msg) + 1

FirstToken(msg, seps) == SubSeq(msg, 1, TokenEnd(msg, seps) - 1)

Remainder(msg, seps) == SubSeq(msg, TokenEnd(msg, seps) + 1, Len(msg))

\* C18 as stated: for every message whose first whitespace-delimited token is
\* a registered command name, Handler.__call__ invokes exactly one handler,
\* the one registered under that token, with the remainder as argument text;
\* for every other message it invokes no handler and sends no reply.
C18_DispatchByFirstToken ==
    DispatchDone =>
        IF FirstToken(d_msg, {" ", "\t"}) \in CommandNames
        THEN d_invoked = <<[f |-> Commands(FirstToken(d_msg, {" ", "\t"})),
                            data |-> Remainder(d_msg, {" ", "\t"})]>>
        ELSE d_invoked = <<>> /\ d_replies = <<>>

\* C18, amended: for every message that arrives on a channel the handler
\* listens to and whose text before its first space is a registered command
\* name, Handler.__call__ invokes exactly one handler, the one registered
\* under that name, with the text after that space as argument text; for
\* every other message (another channel, another first token) it invokes no
\* handler, sends no reply and raises nothing.
C18_DispatchAccepted ==
    DispatchDone =>
        IF d_channel = BotUser /\ FirstToken(d_msg, {" "}) \in CommandNames
        THEN d_invoked = <<[f |-> Commands(FirstToken(d_msg, {" "})),
                            data |-> Remainder(d_msg, {" "})]>>
        ELSE d_invoked = <<>> /\ d_replies = <<>> /\ d_exc = "none"

\* gen_token was invoked with the text after the first space of its message
C18_Witness ==
    /\ DispatchDone
    /\ d_msg = <<"!gen-token", " ", "!r">>
    /\ d_invoked = <<[f |-> "gen_token", data |-> <<"!r">>]>>

\* C19: when a dispatched handler raises CommandFailure, exactly one reply
\* 'Error: <message>' is sent to the sender and nothing propagates out of
\* dispatch; no other reply is sent for that message.
C19_OneErrorReply ==
    (DispatchDone /\ d_failure.raised) =>
        (d_replies = <<ErrorReply(d_failure)>> /\ d_exc = "none")

\* The periodic task's function is executing
TaskExecuting(p) == ppc[p] \in {"iter", "update", "commit", "send"}

\* A timer for the task's next execution is pending
TimerPending(p) == ppc[p] = "armed"

\* C20: each periodic task is re-armed after every execution: once an
\* execution of the task's function has finished, by returning or by raising
\* (a send that fails, say), a new timer for the next execution is pending. So
\* at any time the task is either executing or has a timer pending.
C20_AlwaysRearmed ==
    \A p \in Pollers : TaskExecuting(p) \/ TimerPending(p)

(* Properties of the candidate supply *)

\* The caller is running a step of the generator
InGenerator(c) == n_pc[c] \in {"resume", "fetch", "pop"}

\* C21: under any interleaving of concurrent callers of next(), at most one
\* caller executes the generator step at a time, and no candidate instance is
\* returned to two callers, or twice to one caller.
C21_SupplySerialized ==
    /\ Cardinality({c \in SupplyCallers : InGenerator(c)}) <= 1
    /\ \A i, j \in DOMAIN yielded : yielded[i] = yielded[j] => i = j

\* both callers hold a candidate of the same refill
C21_Witness ==
    /\ n_got["u1"].exc = "none"
    /\ n_got["u2"].exc = "none"
    /\ n_got["u1"].value.refill = 1
    /\ n_got["u2"].value.refill = 1

\* The eligibility of section 4.3: ranked, parsed, at least 2 hit objects
Eligible(x) == x.approved = "ranked" /\ x.parses /\ x.hits >= 2

\* Some refill returned no eligible item. The generator does not outlive
\* that refill, so it is the last one.
BadRefill == refills > 0 /\ \A i \in DOMAIN fetched : ~Eligible(fetched[i])

\* C22: if every refill call returns at least one eligible item, every call
\* of next() terminates and returns a candidate, for every caller: a call
\* that has started leads to that caller holding a candidate, unless some
\* refill returned no eligible item.
C22_NextTerminates ==
    \A c \in SupplyCallers :
        (n_pc[c] = "lock") ~>
            \/ n_pc[c] = "idle" /\ n_got[c].exc = "none" /\ n_got[c].value # NoCandidate
            \/ BadRefill

\* u2's call had to wait for a second refill and returned a candidate of it
C22_Witness ==
    /\ refills = 2
    /\ n_pc["u2"] = "idle"
    /\ n_got["u2"].exc = "none"
    /\ n_got["u2"].value.refill = 2

\* C23: the candidate pool is never empty where a candidate is taken from
\* it, also after a refill in which the collaborator returned no eligible
\* item: the pop works on a non-empty pool and the supply stays usable.
C23_PopOnNonEmptyPool ==
    /\ \A c \in SupplyCallers : n_pc[c] = "pop" => pool # <<>>
    /\ ~gen_finished

InSeq(x, list) == \E i \in DOMAIN list : list[i] = x

\* C24: every candidate yielded is ranked and has at least 2 hit objects; an
\* item that fails to parse during a refill is skipped and the refill goes
\* on with the remaining items, so every eligible item of the refill is in
\* the pool or has been yielded.
C24_OnlyEligibleYielded ==
    /\ \A i \in DOMAIN yielded : Eligible(yielded[i])
    /\ \A i \in DOMAIN fetched :
          Eligible(fetched[i]) => (InSeq(fetched[i], pool) \/ InSeq(fetched[i], yielded))

\* a candidate was yielded that came after an unparsable item in its refill
C24_Witness ==
    /\ Len(fetched) = 2
    /\ ~fetched[1].parses
    /\ InSeq(fetched[2], yielded)

(* Properties of the prediction engine *)

\* The masks of the subsets of the options that hold every pinned-on option
\* and no pinned-off option
PinnedMasks(with_mods, without_mods) ==
    { [k \in AllMods |-> k \in S] :
        S \in {T \in SUBSET AllMods : with_mods \subseteq T /\ T \cap without_mods = {}} }

\* C25: for all disjoint with_mods and without_mods, when the model does not
\* raise, _predict returns exactly one (mask, prediction) pair for each subset
\* of the options that contains every option of with_mods and none of
\* without_mods, and no other pair; every returned mask is true on each
\* pinned-on option and false on each pinned-off option.
C25_PredictMasks ==
    (/\ k_pc = "returned"
     /\ k_with \cap k_without = {}
     /\ \A m \in PinnedMasks(k_with, k_without) : k_model[m] # Raises)
    => /\ {k_result[i][1] : i \in DOMAIN k_result} = PinnedMasks(k_with, k_without)
       /\ Len(k_result) = Cardinality(PinnedMasks(k_with, k_without))
       /\ \A i \in DOMAIN k_result :
             /\ k_result[i][2] = k_model[k_result[i][1]]
             /\ \A k \in k_with : k_result[i][1][k]
             /\ \A k \in k_without : ~k_result[i][1][k]

\* hidden pinned on, hard rock pinned off: the four masks over the other two
C25_Witness ==
    /\ k_pc = "returned"
    /\ k_with = {"hidden"}
    /\ k_without = {"hard_rock"}
    /\ Len(k_result) = 4

(* Properties of the recommend command *)

\* C26: if the model raises while predicting any mask of one candidate,
\* _predict returns an empty list for that candidate and recommend goes on
\* with the next candidate; the failure never leaves recommend.
C26_PredictionFailureContained ==
    /\ [](d_exc # "model error")
    /\ [][(r_pc = "predict" /\ ~r_raised /\ r_raised')
              => (r_preds' = <<>> /\ r_pc' = "scan")]_vars
    /\ [][(r_pc = "scan" /\ r_preds = <<>>)
              => (r_pc' = "next" /\ r_n' = r_n + 1)]_vars

\* the model raised on an earlier candidate and recommend replied with a
\* later one
C26_Witness ==
    /\ r_raised
    /\ r_reply.sent
    /\ r_reply.candidate > 1

\* C27: one execution of recommend takes at most 50 candidates out of the
\* supply and runs _predict on at most 50 candidates.
C27_AtMostFifty ==
    /\ r_taken <= CandidateBudget
    /\ r_predicted <= CandidateBudget

\* The prediction is one the user should get: its pp inside the window, ends
\* included, its accuracy at least 95 percent
InWindow(window, prediction) ==
    /\ prediction.pp_mean \in window.lower_bound..window.upper_bound
    /\ prediction.accuracy_mean >= 95

C29_NotEnoughCandidates ==
    /\ [][r_pc = "exhausted" => (d_failure' = Exhausted /\ d_pc' = "except")]_vars
    /\ [](r_pc \in {"exhausted", "done"} => supply_lock = Free)
    /\ []((d_pc = "done" /\ d_failure.raised /\ d_failure.text = NotEnoughMessage)
              => (d_replies = <<ErrorReply(Exhausted)>> /\ d_exc = "none"))

\* the break ended the loop and the user has the one error reply
C29_Witness ==
    /\ d_pc = "done"
    /\ r_n > CandidateBudget
    /\ d_replies = <<ErrorReply(Exhausted)>>
    /\ supply_lock = Free

\* C30: when a user with no persisted model sends recommend, the only reply
\* is the no-model message and nothing else changes: no candidate is taken
\* from the supply, no user-statistics entry is written, no training-queue
\* row is added or modified.
C30_NoModelNoEffect ==
    /\ [][(~r_has_model /\ r_pc \in {"get_model", "done"} /\ r_pc' # "get_model")
              => UNCHANGED <<qvars, uvars, r_stats, r_taken>>]_vars
    /\ []((~r_has_model /\ r_pc = "done" /\ d_pc = "done")
              => (/\ d_replies = <<ErrorReply([raised |-> TRUE, text |-> NoModelMessage])>>
                  /\ r_taken = 0
                  /\ d_exc = "none"))

\* the user without a model has the no-model reply
C30_Witness ==
    /\ ~r_has_model
    /\ r_pc = "done"
    /\ d_pc = "done"
    /\ d_replies = <<ErrorReply([raised |-> TRUE, text |-> NoModelMessage])>>

-----------------------------------------------------------------------------
(* Properties of the expiring cache *)

\* What the claim gives for a get of key at time t: the value of the last
\* set strictly before its expiry, a miss from the expiry on or with no set
Expected(key, t) ==
    IF x_last[key].present /\ t < x_last[key].expires
    THEN [key |-> key, hit |-> TRUE, value |-> x_last[key].value, at |-> t]
    ELSE [key |-> key, hit |-> FALSE, value |-> 0, at |-> t]

\* C31: after set(k, v, e) and no later set of k, get(k) returns v at every
\* time now < e and is a miss (KeyError) at every time now >= e; a later set
\* of the same key replaces both value and expiry.
C31_CacheExpiry ==
    /\ [](\A key \in CacheKeys : CacheLookup(x_entries, key, x_now) = Expected(key, x_now))
    /\ [][x_got' # x_got => x_got' = Expected(x_got'.key, x_now)]_vars

\* a get returned a value, the key was then set to another value and expiry,
\* and that one has expired too
C31_Witness ==
    /\ x_got.hit
    /\ x_last[x_got.key].value # x_got.value
    /\ x_last[x_got.key].expires > x_got.at
    /\ x_now >= x_last[x_got.key].expires
    /\ ~CacheLookup(x_entries, x_got.key, x_now).hit

-----------------------------------------------------------------------------
(* Properties of the bounded model cache *)

\* The users with a model in the cache
CachedUsers == {m_cache[i].user : i \in 1..Len(m_cache)}

\* C32: the model cache of capacity N never holds more than N models, and
\* when a successful load makes it exceed N the entry evicted is exactly the
\* least-recently-accessed user (accesses include cache hits), for every
\* sequence of get_model calls.
C32_BoundedLRU ==
    /\ [](Len(m_cache) <= ModelCacheSize /\ Cardinality(CachedUsers) = Len(m_cache))
    /\ [][(CachedUsers \ CachedUsers' # {} \/ m_evicted' # m_evicted) =>
              \E gone \in CachedUsers :
                 /\ Len(m_cache) = ModelCacheSize
                 /\ \A u \in CachedUsers \ {gone} : m_time[gone] < m_time[u]
                 /\ m_evicted' = Append(m_evicted, gone)
                 /\ \E new \in ModelUsers \ CachedUsers :
                        CachedUsers' = (CachedUsers \ {gone}) \cup {new}]_vars

\* a user was evicted while the model loaded first of all is still cached,
\* because a hit on it came in between
C32_Witness ==
    /\ m_evicted # <<>>
    /\ Len(m_cache) = ModelCacheSize
    /\ \E i \in 1..Len(m_cache) : m_cache[i].inst = 1
    /\ \E t \in ModelCallers : m_res[t] = [kind |-> "hit", inst |-> 1]

\* The model instance cached for the user
CachedInst(user) == m_cache[CHOOSE i \in 1..Len(m_cache) : m_cache[i].user = user].inst

\* C40: a 'no model' outcome is not cached: if get_model(user) fails because
\* no model is persisted and a model for that user is persisted afterwards,
\* the next get_model(user) loads and returns it; and once a model is cached,
\* get_model returns the cached instance without reading storage until that
\* entry is evicted.
C40_OnlyModelsCached ==
    /\ [](CachedUsers \subseteq m_stored)
    /\ [][\A t \in ModelCallers :
             (m_pc[t] = "load" /\ m_pc'[t] # "load") =>
                 IF m_user[t] \in m_stored
                 THEN /\ m_res'[t] = [kind |-> "loading", inst |-> m_loads + 1]
                      /\ m_loads' = m_loads + 1
                      /\ m_pc'[t] = "insert"
                 ELSE /\ m_res'[t].kind = "KeyError"
                      /\ UNCHANGED <<m_cache, m_loads>>]_vars
    /\ [][\A t \in ModelCallers :
             (m_pc[t] = "insert" /\ m_pc'[t] # "insert") =>
                 /\ m_res'[t] = [kind |-> "loaded", inst |-> m_res[t].inst]
                 /\ m_user[t] \in CachedUsers']_vars
    /\ [][\A t \in ModelCallers :
             (m_pc[t] = "idle" /\ m_pc'[t] = "load") => m_user'[t] \notin CachedUsers]_vars
    /\ [][\A t \in ModelCallers :
             (m_pc[t] = "idle" /\ m_pc'[t] = "idle" /\ m_res'[t] # m_res[t]) =>
                 /\ m_user'[t] \in CachedUsers
                 /\ m_res'[t] = [kind |-> "hit", inst |-> CachedInst(m_user'[t])]
                 /\ m_loads' = m_loads]_vars

\* one caller was told there is no model of the user, the model was
\* persisted and loaded, and another caller got that cached instance
C40_Witness ==
    \E t1, t2 \in ModelCallers :
        /\ m_user[t1] = m_user[t2]
        /\ m_pc[t1] = "idle"
        /\ m_res[t1].kind = "KeyError"
        /\ m_pc[t2] = "idle"
        /\ m_res[t2].kind = "hit"
        /\ m_user[t2] \in CachedUsers
        /\ m_res[t2].inst = CachedInst(m_user[t2])

-----------------------------------------------------------------------------
(* Properties of the connection's end *)

\* C33: when the receive loop ends because a socket read or write raised,
\* the running flag is cleared, so that close() afterwards succeeds and no
\* further dispatch is attempted.
C33_StoppedOnIoError ==
    (listen_pc = "raised" /\ listen_exc = "ConnectionResetError") =>
        (~client_running /\ ~CloseRefused(client_running))

-----------------------------------------------------------------------------
(* Properties of the replies of one message *)

\* C35: the task handling one inbound private message sends at most one
\* reply before terminating: exactly one when a command matched, none when
\* no command matched, for every registered command.
C35_OneReplyPerMessage ==
    DispatchDone =>
        IF d_invoked # <<>> THEN Len(d_replies) = 1 ELSE Len(d_replies) = 0

-----------------------------------------------------------------------------
(* Properties of the upload tokens *)

\* C36: a token issued by gen_token for a user with expiry e is accepted by
\* read_token and yields that same user at every time before e, and is
\* rejected with ExpiredToken at every time after e; a payload that cannot be
\* decrypted or lacks exactly the keys issued, expires, user is rejected and
\* never yields a user.
C36_TokenRoundTrip ==
    /\ [](LET r == read_token(t_token, t_now) IN
          IF t_issue.issued
          THEN /\ t_now < t_issue.expires => (r.kind = "token" /\ r.user = t_issue.user)
               /\ t_now > t_issue.expires => r.kind = "ExpiredToken"
          ELSE r.kind = "ValueError" /\ r.user = "")
    /\ [][t_result' # t_result =>
             /\ t_result'.at = t_now
             /\ t_result'.kind = "token" =>
                   (/\ t_issue.issued
                    /\ t_result'.user = t_issue.user
                    /\ t_now <= t_issue.expires)
             /\ t_result'.kind = "ExpiredToken" => (t_issue.issued /\ t_now >= t_issue.expires)
             /\ t_result'.kind = "ValueError" => ~t_issue.issued]_vars

\* a token issued for the user with the name outside ASCII was read back with
\* that user, and has expired since
C36_Witness ==
    /\ t_issue.issued
    /\ t_issue.user = "é"
    /\ t_result = [kind |-> "token", user |-> "é", at |-> t_result.at]
    /\ t_result.at < t_issue.expires
    /\ t_now > t_issue.expires
    /\ read_token(t_token, t_now).kind = "ExpiredToken"

-----------------------------------------------------------------------------
(* Properties of the receive buffer *)

\* The complete lines of a stream of bytes, read off byte by byte: line is
\* the line being read, done the lines ended so far
RECURSIVE LinesOf(_, _, _, _)
LinesOf(stream, i, line, done) ==
    IF i > Len(stream) THEN done
    ELSE IF stream[i] = "\n" THEN LinesOf(stream, i + 1, <<>>, Append(done, line))
    ELSE LinesOf(stream, i + 1, Append(line, stream[i]), done)

\* The bytes of a stream after its last line feed
RECURSIVE Unfinished(_, _, _)
Unfinished(stream, i, line) ==
    IF i > Len(stream) THEN line
    ELSE IF stream[i] = "\n" THEN Unfinished(stream, i + 1, <<>>)
    ELSE Unfinished(stream, i + 1, Append(line, stream[i]))

IsPrefix(short, long) ==
    /\ Len(short) <= Len(long)
    /\ SubSeq(long, 1, Len(short)) = short

\* C37: the receive loop dispatches only complete lines and each exactly
\* once: bytes received after the last line terminator stay buffered and are
\* dispatched only when a later read delivers their terminator, so a line
\* split across several socket reads is handled once as a whole and never as
\* fragments.
C37_WholeLinesOnce ==
    LET complete == LinesOf(b_stream, 1, <<>>, <<>>) IN
    /\ IsPrefix(b_handled, complete)
    /\ b_pc \in {"recv", "for"} =>
          /\ b_handled \o b_lines = complete
          /\ b_buffer = Unfinished(b_stream, 1, <<>>)
    /\ b_pc = "recv" => b_handled = complete

\* the line 'ab' came in two reads, the cut between its letters, and was
\* taken up once as a whole
C37_Witness ==
    /\ b_handled = <<<<"a", "b">>>>
    /\ 1 \in b_cuts
    /\ b_stream = <<"a", "b", "\n">>
    /\ b_pc = "recv"

-----------------------------------------------------------------------------
(* Properties of a periodic task's timers *)

\* C38: executions of one periodic task never overlap and are fixed-delay:
\* the timer for execution k+1 is created only after execution k has
\* returned, so at any time at most one timer or one execution of that task
\* exists, and the next execution starts a full interval after the previous
\* one finished.
C38_FixedDelay ==
    /\ [](Len(i_timers) + i_running <= 1)
    /\ [][Len(i_timers') > Len(i_timers) =>
             (i_running = 1 /\ i_running' = 0 /\ i_returned' = i_clock)]_vars
    /\ [][i_running' > i_running =>
             (/\ i_started' = i_clock
              /\ i_returned >= 0 => i_clock >= i_returned + TimerInterval)]_vars

\* the second execution is under way: it started a full interval after the
\* first one, which took some time, had returned
C38_Witness ==
    /\ i_running = 1
    /\ i_returned > TimerInterval
    /\ i_started >= i_returned + TimerInterval
    /\ i_timers = <<>>

-----------------------------------------------------------------------------
(* Properties of the reported flag *)

\* The status is one a finished job has
Terminal(status) == status \in {success, failed}

\* C39: in every reachable state of the training queue, a row with reported =
\* true has a terminal status (success or failed): no not_started or running
\* job is ever flagged reported, under any interleaving of the worker's
\* update_status calls and the poller's get_completed_jobs.
C39_ReportedIsTerminal ==
    /\ \A i \in DOMAIN queue : queue[i].reported => Terminal(queue[i].status)
    /\ \A i \in DOMAIN txn : txn[i].reported => Terminal(txn[i].status)

=============================================================================
